---- MODULE Spec2Model ----
(***************************************************************************)
(* The legal case-search RAG backend: the five-stage pipeline of           *)
(* EmbeddingRetrievalPipeline.run (embed, retrieve, rerank, generate,      *)
(* format), the tenacity retry wrappers around every stage and every       *)
(* component, and the provider-fallback traversal of LLMService.generate.  *)
(*                                                                         *)
(* External services (the embedding API, the vector index, the             *)
(* cross-encoder, the LLM providers) answer nondeterministically: each     *)
(* call either raises or returns one of a small set of values.             *)
(*                                                                         *)
(* Spec is the pipeline serving requests, and SpecLive the same pipeline   *)
(* when every call in progress is eventually over.  SpecAnswered is the    *)
(* pipeline when no external call raises, with longer lists of passages,   *)
(* and SpecFallback the pipeline when only the LLM providers fail, with    *)
(* more kinds of responses.                                                *)
(* SpecConstruction is the construction of the services from a             *)
(* configuration and an environment.  SpecRetrieve, SpecRerank and         *)
(* SpecFormat are RetrievalService.retrieve, RerankerService.rerank and    *)
(* ResponseService.generate_response called on their own, on arguments     *)
(* drawn from bounded sets.  SpecService is the /query endpoint of the     *)
(* API, and SpecConcurrent two calls of run interleaved at their awaits.   *)
(***************************************************************************)
EXTENDS Integers, Sequences, FiniteSets, TLC

\* ------------------------------------------------------------------ bounds

\* Longest provider list of the configuration.
MaxProviders == 2
\* Most matches the vector index returns for one query (its top_k).
MaxDocs == 1
\* RerankerConfig.top_n.
TopN == 2
\* ResponseConfig.max_citations.
MaxCitations == 2
\* Longest list of passages given to the formatter called on its own.
MaxCited == 3
\* Longest LLM output, in pieces, given to the formatter called on its own.
MaxText == 6
\* Most matches the vector index returns when every service answers.
MaxRetrieved == 3
\* Longest list of passages given to the reranker called on its own.
MaxPassages == 3
\* Most attempts of rerank on one list of passages.
MaxReranks == 2
\* Longest LLM output without a Final Answer: header, in pieces, given to the
\* formatter called on its own.
MaxFallback == 5
\* RetrievalConfig.retrieval_top_k, for the retrieval service called on its own.
TopK == 6
\* Most requests the API serves.
MaxRequests == 2

\* ------------------------------------------------------- program constants

\* stop_after_attempt(3) of every @retry decorator.
MaxAttempts == 3

None == "None"
\* No exception, and no returned dictionary.
NoError == [kind |-> None, msg |-> <<>>]
NoResult == [none |-> TRUE]
\* A local of run or generate that has no value yet: a vector or a text (a
\* sequence of words), a list of passages.
NoText == <<None>>
NoDocs == <<[none |-> TRUE]>>

Stages == <<"embed", "retrieve", "rerank", "generate", "format">>
StageSet == {Stages[i] : i \in 1..Len(Stages)}
StageIndex(s) == CHOOSE i \in 1..Len(Stages) : Stages[i] = s

\* Provider names the client factory recognizes.
SupportedProviders == {"groq", "together", "openai", "anthropic"}
\* Provider names the configurations of the model hold: two recognized ones
\* and one the factory does not know.
ProviderNames == {"groq", "openai", "cohere"}
ModelNames == {"m1", "m2"}
ProviderConfigs == [provider : ProviderNames, model_name : ModelNames]
\* generation.providers of the configuration: a non-empty list.
Configs == UNION {[1..n -> ProviderConfigs] : n \in 1..MaxProviders}

\* Queries a caller may send: empty, blank (whitespace only), a real question.
Queries == {"", " ", "q"}
\* `not query`
Empty(q) == q = ""
\* `not t.strip()`
Blank(q) == q \in {"", " "}

\* A text is the sequence of its pieces: a line break, a blank, a header, an
\* emphasis marker, or a piece of other text.  <<>> is the empty (or missing)
\* text.
NL == "\n"
SP == " "
CRLF == "\r\n"
FinalAnswerHeader == "Final Answer:"
ReasoningLabel == "Reasoning:"
\* What a provider answers: nothing, a text with both headers that names the
\* case title B, or a text without headers that names no title.
Responses ==
  { <<>>,
    <<ReasoningLabel, NL, "B", NL, FinalAnswerHeader, NL, "x">>,
    <<"x">> }
\* `"Final Answer:" in response`
HasHeader(response) == \E i \in 1..Len(response) : response[i] = FinalAnswerHeader

\* ------------------------------------------------------------------ errors

\* An exception: its class and the words of str(e).
Error(kind, msg) == [kind |-> kind, msg |-> msg]
ValueError(text) == Error("ValueError", <<text>>)
\* raise RuntimeError(f"{prefix}: {e}")
Wrap(prefix, e) == Error("RuntimeError", <<prefix>> \o e.msg)
\* What an external service raises.
ExternalError == Error("ExternalError", <<"service unavailable">>)
\* tenacity's RetryError: str() shows only the class of the last attempt's exception.
RetryError(last) == Error("RetryError", <<"RetryError", last.kind>>)

\* What an attempt of retrieve or rerank gives its caller: an exception, or a
\* list of passages.
Outcome(raised, docs) == [raised |-> raised, docs |-> docs]

StagePrefix(s) ==
  CASE s = "embed" -> "Embedding failed"
    [] s = "retrieve" -> "Retrieval failed"
    [] s = "rerank" -> "Reranking failed"
    [] s = "generate" -> "Generation failed"
    [] s = "format" -> "Response formatting failed"

\* ------------------------------------------------------------------- state

VARIABLES
  registry,        \* LLMService.providers, built once by the constructor
  model_id,        \* EmbeddingRetrievalPipeline.model_id
  query,           \* the argument of the run in progress
  pc,              \* "init_failed", "idle", the stage in progress, "done", "failed"
  at,              \* "stage": a stage attempt is about to start; "call": a component
                   \* attempt is about to start; "loop": inside generate's provider loop
  stage_attempt,   \* tenacity's attempt number of the stage wrapper in progress
  comp_attempt,    \* tenacity's attempt number of the component call in progress
  embedding,       \* run's local: the query vector
  documents,       \* run's local: the retrieved passages
  reranked_docs,   \* run's local: the reranked passages
  llm_output,      \* run's local: the raw LLM text
  result,          \* what run returned to its caller
  error,           \* what run raised to its caller
  providers,       \* generate's local: the shuffled matching registry entries
  next_provider,   \* generate's local: position of the loop in providers
  best_response,   \* generate's local
  attempt_error,   \* what the latest failed component attempt of this stage raised
  component_error, \* what the latest failed component call of this stage raised to
                   \* its caller, the stage wrapper
  failed_stage,    \* the stage whose retries were exhausted
  started,         \* the stages this run has started, in order
  returned,        \* the stages this run has seen return, in order
  traversals,      \* provider-loop traversals this run has started
  attempted,       \* registry entries the latest traversal has called, in order
  received,        \* what each of them answered: an exception or a response
  provider_calls,  \* calls this run has made to each registry entry
  invalid_evals,   \* failed precondition checks of the stage in progress
  external_calls,  \* external service calls of the stage in progress
  \* The construction of the services, for the specification that starts
  \* before it:
  llm_config,      \* LLMConfig.providers, the configured provider list
  env_keys,        \* the providers whose {PROVIDER}_API_KEY is set and not empty
  client_errors,   \* the providers whose client constructor raises
  \* RerankerService.rerank called on its own:
  rerank_query,    \* its argument query
  rerank_documents,\* its argument documents, a list it scores in place
  rerank_scores,   \* what the model predicted in the latest call
  rerank_outcome,  \* what the latest call returned or raised
  predict_calls,   \* invocations of the model by the latest call
  rerank_calls,    \* calls made so far
  \* ResponseService.generate_response called on its own:
  format_query,    \* its argument query
  format_llm_output, \* its argument llm_output
  format_documents,  \* its argument documents
  format_outcome,  \* what the call returned or raised
  \* RetrievalService.retrieve called on its own:
  retrieve_embedding, \* its argument query_embedding
  query_response,     \* what the index answered
  retrieve_outcome,   \* what the call returned or raised
  \* The API of main.py:
  exchanges,          \* the requests handled so far, each with what its handler
                      \* met and what it answered
  chat_history,       \* the rows of the chat_history table
  \* Two calls of run in progress at once on the one pipeline:
  tasks,              \* per call: its argument, its position, the attempt numbers
                      \* of its two retry wrappers, what it returned or raised
  frames              \* per call: the locals of run and of generate

setup == <<registry, model_id>>
construction == <<llm_config, env_keys, client_errors>>
reranking ==
  <<rerank_query, rerank_documents, rerank_scores, rerank_outcome, predict_calls,
    rerank_calls>>
formatting == <<format_query, format_llm_output, format_documents, format_outcome>>
retrieving == <<retrieve_embedding, query_response, retrieve_outcome>>
\* What the pipeline's run leaves alone.
serving == <<exchanges, chat_history>>
concurrent == <<tasks, frames>>
components ==
  <<construction, reranking, formatting, retrieving, serving, concurrent>>
locals == <<embedding, documents, reranked_docs, llm_output>>
loop == <<providers, next_provider, best_response, attempted, received>>
outcome == <<result, error, failed_stage>>
control == <<pc, at, stage_attempt, comp_attempt>>
vars ==
  <<registry, model_id, query, pc, at, stage_attempt, comp_attempt, embedding,
    documents, reranked_docs, llm_output, result, error, providers,
    next_provider, best_response, attempt_error, component_error,
    failed_stage, started, returned, traversals, attempted, received,
    provider_calls, invalid_evals, external_calls, llm_config, env_keys,
    client_errors, rerank_query, rerank_documents, rerank_scores,
    rerank_outcome, predict_calls, rerank_calls, format_query,
    format_llm_output, format_documents, format_outcome, retrieve_embedding,
    query_response, retrieve_outcome, exchanges, chat_history, tasks, frames>>

\* ------------------------------------------------------------ construction

RECURSIVE initialize_clients_unfiltered(_, _, _)
RECURSIVE initialize_clients(_, _, _)
\* initialize_clients without the branch for unsupported providers.
initialize_clients_unfiltered(config, keys, broken) ==
  IF config = <<>> THEN <<>>
  ELSE LET provider_config == Head(config)
           rest == initialize_clients_unfiltered(Tail(config), keys, broken)
       IN IF provider_config.provider \notin keys THEN rest
          ELSE IF provider_config.provider \in broken THEN rest
          ELSE <<[model_name |-> provider_config.model_name,
                  provider |-> provider_config.provider]>> \o rest

\* LLMService._initialize_clients: the registry for a configuration, the set
\* keys of providers whose {PROVIDER}_API_KEY is present and the set broken of
\* providers whose client constructor raises (the except clause logs the
\* exception and goes on to the next provider).
initialize_clients(config, keys, broken) ==
  IF config = <<>> THEN <<>>
  ELSE LET provider_config == Head(config)
           rest == initialize_clients(Tail(config), keys, broken)
       IN IF provider_config.provider \notin keys THEN rest
          ELSE IF provider_config.provider \notin SupportedProviders THEN rest
          ELSE IF provider_config.provider \in broken THEN rest
          ELSE <<[model_name |-> provider_config.model_name,
                  provider |-> provider_config.provider]>> \o rest

\* A constructor that accepts an empty registry.
Constructed_empty(reg) == TRUE

\* The end of _initialize_clients: `if not self.providers: raise ValueError`.
\* LLMService's constructor, and with it the pipeline's, returns only when the
\* registry is not empty.
Constructed(reg) == reg # <<>>

\* The pipeline's own state for a registry reg, a model_id and a position p,
\* before any run.
PipelineInit(reg, model, p) ==
  /\ registry = reg
  /\ model_id = model
  /\ pc = p
  /\ at = "stage"
  /\ query = None
  /\ stage_attempt = 0
  /\ comp_attempt = 0
  /\ embedding = NoText
  /\ documents = NoDocs
  /\ reranked_docs = NoDocs
  /\ llm_output = NoText
  /\ result = NoResult
  /\ error = NoError
  /\ providers = <<>>
  /\ next_provider = 0
  /\ best_response = NoText
  /\ attempt_error = NoError
  /\ component_error = NoError
  /\ failed_stage = None
  /\ started = <<>>
  /\ returned = <<>>
  /\ traversals = 0
  /\ attempted = <<>>
  /\ received = <<>>
  /\ provider_calls = [i \in 1..Len(reg) |-> 0]
  /\ invalid_evals = 0
  /\ external_calls = 0

\* A specification that starts once the pipeline is built keeps nothing of
\* what it was built from.
ConstructionOver ==
  /\ llm_config = <<>>
  /\ env_keys = {}
  /\ client_errors = {}

\* No call of the reranker on its own.
RerankIdle ==
  /\ rerank_query = None
  /\ rerank_documents = NoDocs
  /\ rerank_scores = NoText
  /\ rerank_outcome = NoResult
  /\ predict_calls = 0
  /\ rerank_calls = 0

\* No call of the formatter on its own.
FormatIdle ==
  /\ format_query = None
  /\ format_llm_output = NoText
  /\ format_documents = NoDocs
  /\ format_outcome = NoResult

\* No call of the retrieval service on its own.
RetrieveIdle ==
  /\ retrieve_embedding = NoText
  /\ query_response = NoResult
  /\ retrieve_outcome = NoResult

\* No request to the API, and no calls of run in progress at once.
ServeIdle ==
  /\ exchanges = <<>>
  /\ chat_history = <<>>
  /\ tasks = <<>>
  /\ frames = <<>>

\* EmbeddingRetrievalPipeline.__init__: the services are built, and model_id
\* is the model_name of the first configured provider.
Init ==
  \E config \in Configs, keys \in SUBSET ProviderNames, broken \in SUBSET ProviderNames :
    LET reg == initialize_clients(config, keys, broken) IN
    /\ PipelineInit(reg,
                    IF Constructed(reg) THEN config[1].model_name ELSE None,
                    IF Constructed(reg) THEN "idle" ELSE "init_failed")
    /\ ConstructionOver
    /\ RerankIdle
    /\ FormatIdle
    /\ RetrieveIdle
    /\ ServeIdle

\* The state before the pipeline is built: a configuration, the credentials
\* of the environment and the client constructors that raise.
InitConstruction ==
  /\ PipelineInit(<<>>, None, "constructing")
  /\ llm_config \in Configs
  /\ env_keys \in SUBSET ProviderNames
  /\ client_errors \in SUBSET ProviderNames
  /\ RerankIdle
  /\ FormatIdle
  /\ RetrieveIdle
  /\ ServeIdle

\* EmbeddingRetrievalPipeline.__init__ with the LLMService.__init__ it calls:
\* the registry is built; the constructors return, or raise ValueError.
EmbeddingRetrievalPipeline_init ==
  /\ pc = "constructing"
  /\ LET reg == initialize_clients(llm_config, env_keys, client_errors) IN
     /\ registry' = reg
     /\ model_id' = IF Constructed(reg) THEN llm_config[1].model_name ELSE None
     /\ pc' = IF Constructed(reg) THEN "idle" ELSE "init_failed"
     /\ provider_calls' = [i \in 1..Len(reg) |-> 0]
  /\ UNCHANGED <<components, query, at, stage_attempt, comp_attempt, locals, loop,
                 outcome, attempt_error, component_error, started, returned,
                 traversals, invalid_evals, external_calls>>

NextConstruction == EmbeddingRetrievalPipeline_init

SpecConstruction == InitConstruction /\ [][NextConstruction]_vars

\* ------------------------------------------------------------ retry policy

Control(p, a, sa, ca) ==
  /\ pc' = p
  /\ at' = a
  /\ stage_attempt' = sa
  /\ comp_attempt' = ca

\* The stage run calls after stage s, "done" after the last.
NextOf(s) == IF s = "format" THEN "done" ELSE Stages[StageIndex(s) + 1]

\* StageFails with the failure swallowed: run goes on to the next stage.
StageFails_continue(sa, e) ==
  IF sa < MaxAttempts
  THEN /\ Control(pc, "stage", sa, 0)
       /\ UNCHANGED outcome
  ELSE /\ Control(NextOf(pc), "stage", 0, 0)
       /\ UNCHANGED outcome

\* StageFails with what the completed stages produced handed to the caller.
StageFails_partial(sa, e) ==
  IF sa < MaxAttempts
  THEN /\ Control(pc, "stage", sa, 0)
       /\ UNCHANGED outcome
  ELSE /\ Control("failed", "stage", sa, 0)
       /\ error' = Wrap("Pipeline failed", RetryError(e))
       /\ failed_stage' = pc
       /\ result' = [query |-> query, embedding |-> embedding,
                     documents |-> reranked_docs, llm_output |-> llm_output]

\* StageFails with a retry that runs the pipeline again from its first stage.
StageFails_rerun(sa, e) ==
  IF sa < MaxAttempts
  THEN /\ Control("embed", "stage", sa, 0)
       /\ UNCHANGED outcome
  ELSE /\ Control("failed", "stage", sa, 0)
       /\ error' = Wrap("Pipeline failed", RetryError(e))
       /\ failed_stage' = pc
       /\ result' = NoResult

\* StageFails with stop_after_attempt left out: tenacity retries for ever.
StageFails_forever(sa, e) ==
  /\ Control(pc, "stage", 0, 0)
  /\ UNCHANGED outcome

\* StageFails with one attempt too many.
StageFails_fourth(sa, e) ==
  IF sa <= MaxAttempts
  THEN /\ Control(pc, "stage", sa, 0)
       /\ UNCHANGED outcome
  ELSE /\ Control("failed", "stage", sa, 0)
       /\ error' = Wrap("Pipeline failed", RetryError(e))
       /\ failed_stage' = pc
       /\ result' = NoResult

\* @retry on a stage wrapper (run_embedding, ...): attempt sa of the stage in
\* progress raised e.  tenacity starts another attempt, or after the last one
\* raises RetryError, which run catches and wraps.
StageFails(sa, e) ==
  IF sa < MaxAttempts
  THEN /\ Control(pc, "stage", sa, 0)
       /\ UNCHANGED outcome
  ELSE /\ Control("failed", "stage", sa, 0)
       /\ error' = Wrap("Pipeline failed", RetryError(e))
       /\ failed_stage' = pc
       /\ result' = NoResult

\* @retry on a component method (embed, retrieve, rerank, generate,
\* generate_response): attempt ca of the call in progress raised e.  After the
\* last attempt tenacity raises RetryError to the stage wrapper, whose except
\* clause wraps it; that fails the stage attempt.
ComponentFails(ca, e) ==
  /\ attempt_error' = e
  /\ IF ca < MaxAttempts
     THEN /\ Control(pc, "call", stage_attempt, ca)
          /\ UNCHANGED outcome
          /\ UNCHANGED component_error
     ELSE /\ component_error' = RetryError(e)
          /\ StageFails(stage_attempt, Wrap(StagePrefix(pc), RetryError(e)))

\* A stage wrapper returned: run goes on to the next stage.
StageReturns(next) ==
  /\ Control(next, "stage", 0, 0)
  /\ returned' = Append(returned, pc)
  /\ attempt_error' = NoError
  /\ component_error' = NoError
  /\ invalid_evals' = 0
  /\ external_calls' = 0

\* A stage attempt begins: the first attempt of a stage is the stage's start.
StageStarts(s) ==
  /\ pc = s
  /\ at = "stage"
  /\ started' = IF stage_attempt = 0 THEN Append(started, s) ELSE started

\* ------------------------------------------------------------------- run

\* EmbeddingRetrievalPipeline.run is called (by process_query, once the
\* previous request is over).
run(q) ==
  /\ pc \in {"idle", "done", "failed"}
  /\ query' = q
  /\ Control("embed", "stage", 0, 0)
  /\ embedding' = NoText
  /\ documents' = NoDocs
  /\ reranked_docs' = NoDocs
  /\ llm_output' = NoText
  /\ result' = NoResult
  /\ error' = NoError
  /\ failed_stage' = None
  /\ attempt_error' = NoError
  /\ component_error' = NoError
  /\ providers' = <<>>
  /\ next_provider' = 0
  /\ best_response' = NoText
  /\ attempted' = <<>>
  /\ received' = <<>>
  /\ started' = <<>>
  /\ returned' = <<>>
  /\ traversals' = 0
  /\ provider_calls' = [i \in 1..Len(registry) |-> 0]
  /\ invalid_evals' = 0
  /\ external_calls' = 0
  /\ UNCHANGED <<components, setup>>

\* ------------------------------------------------------------------ embed

\* The vector the embedding API returns for a query.
QueryVector == <<"v1", "v2">>

\* run_embedding, one attempt up to the call of the embedding service: the
\* query check sits outside the try block, so its ValueError reaches the
\* retry wrapper as it is.
run_embedding ==
  /\ StageStarts("embed")
  /\ IF Empty(query)
     THEN /\ invalid_evals' = invalid_evals + 1
          /\ StageFails(stage_attempt + 1,
                        ValueError("Query must be a non-empty string."))
     ELSE /\ invalid_evals' = invalid_evals
          /\ Control(pc, "call", stage_attempt + 1, 0)
          /\ UNCHANGED outcome
  /\ UNCHANGED <<components, setup, query, locals, loop, attempt_error, component_error,
                 returned, traversals, provider_calls, external_calls>>

\* EmbeddingService.embed([query], "query"), one attempt: the input checks,
\* then the call of the embedding API, which returns (ok) or raises.
embed(ok) ==
  /\ pc = "embed"
  /\ at = "call"
  /\ IF Blank(query)
     THEN /\ invalid_evals' = invalid_evals + 1
          /\ external_calls' = external_calls
          /\ ComponentFails(comp_attempt + 1,
               ValueError("Input 'texts' must be a non-empty list of non-empty strings."))
          /\ UNCHANGED <<embedding, returned>>
     ELSE IF ok
     THEN /\ embedding' = QueryVector
          /\ StageReturns("retrieve")
          /\ UNCHANGED outcome
     ELSE /\ invalid_evals' = invalid_evals
          /\ external_calls' = external_calls + 1
          /\ ComponentFails(comp_attempt + 1, Wrap("Embedding failed", ExternalError))
          /\ UNCHANGED <<embedding, returned>>
  /\ UNCHANGED <<components, setup, query, documents, reranked_docs, llm_output, loop,
                 started, traversals, provider_calls>>

\* --------------------------------------------------------------- retrieve

\* A passage: the id of the index record it was built from; its metadata gets
\* a rerank_score when the reranker scores it.
Document(id) == [id |-> id]

\* What the index answers: the records 1..n in descending similarity, of which
\* those in with_metadata carry metadata.
Matches == {[n |-> n, with_metadata |-> m] : n \in 0..MaxDocs, m \in SUBSET (1..MaxDocs)}

RECURSIVE Candidates_all(_, _)
\* A comprehension without its filter: a Document per match.
Candidates_all(match, i) ==
  IF i > match.n THEN <<>>
  ELSE <<Document(i)>> \o Candidates_all(match, i + 1)

RECURSIVE Candidates(_, _)
\* The list comprehension of retrieve: a Document per match that has metadata.
Candidates(match, i) ==
  IF i > match.n THEN <<>>
  ELSE IF i \in match.with_metadata
       THEN <<Document(i)>> \o Candidates(match, i + 1)
       ELSE Candidates(match, i + 1)

\* run_retrieval, one attempt up to the call of the retrieval service.
run_retrieval ==
  /\ StageStarts("retrieve")
  /\ Control(pc, "call", stage_attempt + 1, 0)
  /\ UNCHANGED <<components, setup, query, locals, loop, outcome, attempt_error, component_error,
                 returned,
                 traversals, provider_calls, invalid_evals, external_calls>>

\* RetrievalService.retrieve(embedding), one attempt: the input check, then
\* the index query, which returns matches or raises.
retrieve(ok, match) ==
  /\ pc = "retrieve"
  /\ at = "call"
  /\ IF embedding = <<>>
     THEN /\ invalid_evals' = invalid_evals + 1
          /\ external_calls' = external_calls
          /\ ComponentFails(comp_attempt + 1,
               ValueError("query_embedding must be a non-empty list of numbers."))
          /\ UNCHANGED <<documents, returned>>
     ELSE IF ok
     THEN /\ documents' = Candidates(match, 1)
          /\ StageReturns("rerank")
          /\ UNCHANGED outcome
     ELSE /\ invalid_evals' = invalid_evals
          /\ external_calls' = external_calls + 1
          /\ ComponentFails(comp_attempt + 1, Wrap("Retrieval failed", ExternalError))
          /\ UNCHANGED <<documents, returned>>
  /\ UNCHANGED <<components, setup, query, embedding, reranked_docs, llm_output, loop,
                 started, traversals, provider_calls>>

\* -------------------------------------------------- retrieve, on its own

\* What the index answers a query with top_k = TopK: at most TopK records, of
\* which some carry metadata.
QueryResponses ==
  UNION {{[n |-> n, with_metadata |-> m] : m \in SUBSET (1..n)} : n \in 0..TopK}

\* A retrieval service and the argument its caller holds, before any call:
\* no vector, or the vector of a query.
InitRetrieve ==
  /\ PipelineInit(<<>>, None, "absent")
  /\ ConstructionOver
  /\ RerankIdle
  /\ FormatIdle
  /\ ServeIdle
  /\ retrieve_embedding \in {<<>>, QueryVector}
  /\ query_response = NoResult
  /\ retrieve_outcome = NoResult

\* RetrievalService.retrieve(retrieve_embedding), one attempt: the input
\* check, then the index query, which returns matches or raises, and the
\* list comprehension over the matches.
RetrievalService_retrieve(ok, match) ==
  /\ pc = "absent"
  /\ retrieve_outcome = NoResult
  /\ IF retrieve_embedding = <<>>
     THEN /\ retrieve_outcome' =
               Outcome(ValueError("query_embedding must be a non-empty list of numbers."),
                       NoDocs)
          /\ UNCHANGED query_response
     ELSE IF ok
     THEN /\ query_response' = match
          /\ retrieve_outcome' = Outcome(NoError, Candidates(match, 1))
     ELSE /\ retrieve_outcome' = Outcome(Wrap("Retrieval failed", ExternalError), NoDocs)
          /\ UNCHANGED query_response
  /\ UNCHANGED <<construction, concurrent, reranking, formatting, serving, retrieve_embedding, setup,
                 query, control, locals, loop, outcome, attempt_error,
                 component_error, started, returned, traversals, provider_calls,
                 invalid_evals, external_calls>>

NextRetrieve ==
  \E ok \in BOOLEAN, match \in QueryResponses : RetrievalService_retrieve(ok, match)

SpecRetrieve == InitRetrieve /\ [][NextRetrieve]_vars

\* ----------------------------------------------------------------- rerank

\* The scores the cross-encoder gives.
Scores == {0, 1}

\* Position of the last passage of docs with the highest rerank score.
FirstBest_last(docs) ==
  CHOOSE i \in 1..Len(docs) :
    /\ \A j \in 1..Len(docs) : docs[j].rerank_score <= docs[i].rerank_score
    /\ \A j \in (i + 1)..Len(docs) : docs[j].rerank_score < docs[i].rerank_score

\* Position of the first passage of docs with the highest rerank score.
FirstBest(docs) ==
  CHOOSE i \in 1..Len(docs) :
    /\ \A j \in 1..Len(docs) : docs[j].rerank_score <= docs[i].rerank_score
    /\ \A j \in 1..(i - 1) : docs[j].rerank_score < docs[i].rerank_score

Without(docs, i) == SubSeq(docs, 1, i - 1) \o SubSeq(docs, i + 1, Len(docs))

RECURSIVE SortedByScore(_)
\* sorted(reranked_docs, key=rerank_score, reverse=True): Python's sort is
\* stable, also with reverse=True.
SortedByScore(docs) ==
  IF docs = <<>> THEN <<>>
  ELSE LET i == FirstBest(docs) IN <<docs[i]>> \o SortedByScore(Without(docs, i))

\* A loop that scores the first top_n passages only; the others get the
\* default of the sort key.
Scored_top(docs, scores) ==
  [i \in 1..Len(docs) |->
     [id |-> docs[i].id, rerank_score |-> IF i <= TopN THEN scores[i] ELSE 0]]

\* A loop that keeps the rerank_score a passage already has.
Scored_kept(docs, scores) ==
  [i \in 1..Len(docs) |->
     [id |-> docs[i].id,
      rerank_score |-> IF "rerank_score" \in DOMAIN docs[i]
                       THEN docs[i].rerank_score ELSE scores[i]]]

\* The loop of rerank that writes float(score) into each passage's metadata.
Scored(docs, scores) ==
  [i \in 1..Len(docs) |-> [id |-> docs[i].id, rerank_score |-> scores[i]]]

\* reranked_docs[:top_n]
TopCut(docs) == SubSeq(docs, 1, IF Len(docs) < TopN THEN Len(docs) ELSE TopN)

\* A reranker that gives the model an empty list of pairs.
NoDocuments_scored(docs) == FALSE

\* `not documents`: no passage to rerank.  (The passages are Document objects,
\* so the isinstance test of the same line holds.)
NoDocuments(docs) == docs = <<>>

\* run_reranking, one attempt up to the call of the reranker.
run_reranking ==
  /\ StageStarts("rerank")
  /\ Control(pc, "call", stage_attempt + 1, 0)
  /\ UNCHANGED <<components, setup, query, locals, loop, outcome, attempt_error, component_error,
                 returned,
                 traversals, provider_calls, invalid_evals, external_calls>>

\* RerankerService.rerank(query, documents), one attempt: the query check, the
\* early return for no passages, then the model's prediction, which returns
\* scores or raises.  The passages are scored in place.
rerank(ok, scores) ==
  /\ pc = "rerank"
  /\ at = "call"
  /\ DOMAIN scores = 1..Len(documents)
  /\ IF Empty(query)
     THEN /\ invalid_evals' = invalid_evals + 1
          /\ external_calls' = external_calls
          /\ ComponentFails(comp_attempt + 1,
                            ValueError("Query must be a non-empty string."))
          /\ UNCHANGED <<documents, reranked_docs, returned>>
     ELSE IF NoDocuments(documents)
     THEN /\ reranked_docs' = <<>>
          /\ StageReturns("generate")
          /\ UNCHANGED <<documents, outcome>>
     ELSE IF ok
     THEN /\ documents' = Scored(documents, scores)
          /\ reranked_docs' = TopCut(SortedByScore(Scored(documents, scores)))
          /\ StageReturns("generate")
          /\ UNCHANGED outcome
     ELSE /\ invalid_evals' = invalid_evals
          /\ external_calls' = external_calls + 1
          /\ ComponentFails(comp_attempt + 1, Wrap("Reranking failed", ExternalError))
          /\ UNCHANGED <<documents, reranked_docs, returned>>
  /\ UNCHANGED <<components, setup, query, embedding, llm_output, loop, started,
                 traversals, provider_calls>>

\* ---------------------------------------------------- rerank, on its own

\* The lists of passages a caller may give: the index records 1..n.
PassageLists == {[i \in 1..n |-> Document(i)] : n \in 0..MaxPassages}

\* A reranker service and the arguments its caller holds, before any call.
InitRerank ==
  /\ PipelineInit(<<>>, None, "absent")
  /\ ConstructionOver
  /\ rerank_query \in Queries
  /\ rerank_documents \in PassageLists
  /\ rerank_scores = NoText
  /\ rerank_outcome = NoResult
  /\ predict_calls = 0
  /\ rerank_calls = 0
  /\ FormatIdle
  /\ RetrieveIdle
  /\ ServeIdle

\* RerankerService.rerank(rerank_query, rerank_documents), one attempt: the
\* query check, the early return for no passages, then the model's prediction,
\* which returns a score per passage or raises; the passages are scored in
\* place, sorted and cut.  A later attempt, tenacity's or the caller's, gets
\* the list as the earlier ones left it.
RerankerService_rerank(ok, scores) ==
  /\ pc = "absent"
  /\ rerank_calls < MaxReranks
  /\ DOMAIN scores = 1..Len(rerank_documents)
  /\ rerank_calls' = rerank_calls + 1
  /\ IF Empty(rerank_query)
     THEN /\ rerank_outcome' =
               Outcome(ValueError("Query must be a non-empty string."), NoDocs)
          /\ predict_calls' = 0
          /\ rerank_scores' = NoText
          /\ UNCHANGED rerank_documents
     ELSE IF NoDocuments(rerank_documents)
     THEN /\ rerank_outcome' = Outcome(NoError, <<>>)
          /\ predict_calls' = 0
          /\ rerank_scores' = NoText
          /\ UNCHANGED rerank_documents
     ELSE IF ok
     THEN /\ rerank_documents' = Scored(rerank_documents, scores)
          /\ rerank_outcome' =
               Outcome(NoError, TopCut(SortedByScore(Scored(rerank_documents, scores))))
          /\ predict_calls' = 1
          /\ rerank_scores' = scores
     ELSE /\ rerank_outcome' = Outcome(Wrap("Reranking failed", ExternalError), NoDocs)
          /\ predict_calls' = 1
          /\ rerank_scores' = NoText
          /\ UNCHANGED rerank_documents
  /\ UNCHANGED <<construction, concurrent, formatting, retrieving, serving, rerank_query, setup, query, control,
                 locals, loop, outcome, attempt_error, component_error, started,
                 returned, traversals, provider_calls, invalid_evals,
                 external_calls>>

PassageScores == UNION {[1..n -> Scores] : n \in 0..MaxPassages}

NextRerank ==
  \E ok \in BOOLEAN, scores \in PassageScores : RerankerService_rerank(ok, scores)

SpecRerank == InitRerank /\ [][NextRerank]_vars

\* --------------------------------------------------------------- generate

\* Positions of the registry entries that serve model.
Matching(model) == {i \in 1..Len(registry) : registry[i].model_name = model}

\* Shuffles drawing with replacement, as random.choices would.
Shuffles_choices(S) == [1..Cardinality(S) -> S]

\* The orders random.shuffle can leave a list of the entries S in.
Shuffles(S) ==
  {order \in [1..Cardinality(S) -> S] :
     \A i, j \in 1..Cardinality(S) : i # j => order[i] # order[j]}

\* generate shuffling self.providers itself.
SelfProviders_shuffled(order) ==
  IF Len(order) = Len(registry)
  THEN [i \in 1..Len(registry) |-> registry[order[i]]]
  ELSE registry

\* self.providers after generate has shuffled the entries order names: the
\* comprehension of line 335 builds a new list, and that list is what
\* random.shuffle reorders.
SelfProviders(order) == registry

\* run_generation, one attempt up to the call of the router.  The prompt the
\* template builds is never empty, so generate's own query check passes.
run_generation ==
  /\ StageStarts("generate")
  /\ Control(pc, "call", stage_attempt + 1, 0)
  /\ UNCHANGED <<components, setup, query, locals, loop, outcome, attempt_error, component_error,
                 returned,
                 traversals, provider_calls, invalid_evals, external_calls>>

\* LLMService.generate(prompt, reranked_docs, model_id), one attempt up to its
\* first provider call: the input checks, the selection of the matching
\* entries and their shuffle.
generate(order) ==
  /\ pc = "generate"
  /\ at = "call"
  /\ IF Matching(model_id) = {}
     THEN /\ invalid_evals' = invalid_evals + 1
          /\ ComponentFails(comp_attempt + 1,
                            ValueError("No provider configured for model_id"))
          /\ UNCHANGED <<registry, loop, traversals>>
     ELSE /\ order \in Shuffles(Matching(model_id))
          /\ providers' = order
          /\ registry' = SelfProviders(order)
          /\ next_provider' = 1
          /\ best_response' = NoText
          /\ attempted' = <<>>
          /\ received' = <<>>
          /\ traversals' = traversals + 1
          /\ invalid_evals' = invalid_evals
          /\ Control(pc, "loop", stage_attempt, comp_attempt + 1)
          /\ UNCHANGED <<outcome, attempt_error, component_error>>
  /\ UNCHANGED <<components, model_id, query, locals, started, returned,
                 provider_calls, external_calls>>

\* What a provider call gave: an exception, or a response.
Answer(raised, response) ==
  [raised |-> raised, response |-> IF raised THEN <<>> ELSE response]

\* raise RuntimeError("All LLM providers failed. ...")
AllProvidersFailed == Error("RuntimeError", <<"All LLM providers failed">>)

\* KeepBest that keeps the latest response.
KeepBest_latest(best, response) == response

\* KeepBest that forgets the response.
KeepBest_forget(best, response) == best

\* `best_response = response if not best_response else best_response`
KeepBest(best, response) == IF best = NoText THEN response ELSE best

\* AfterCall that returns whatever a provider answered, unchecked.
AfterCall_unchecked(raised, response, best, last) ==
  IF ~raised THEN "return"
  ELSE IF ~last THEN "next"
  ELSE IF best # NoText THEN "return_best"
  ELSE "raise"

\* AfterCall without the except clause: a provider's exception ends the loop.
AfterCall_uncaught(raised, response, best, last) ==
  IF raised THEN "raise"
  ELSE IF response # <<>> /\ HasHeader(response) THEN "return"
  ELSE IF ~last THEN "next"
  ELSE IF best # NoText THEN "return_best"
  ELSE "raise"

\* What generate does with the answer of one provider, the last of the loop or
\* not, when best is the best_response this answer leaves: "return" the
\* response, go on to the "next" provider, or after the loop "return_best" or
\* "raise".
AfterCall(raised, response, best, last) ==
  IF ~raised /\ response # <<>> /\ HasHeader(response) THEN "return"
  ELSE IF ~last THEN "next"
  ELSE IF best # NoText THEN "return_best"
  ELSE "raise"

\* One iteration of generate's provider loop: the call of the next provider,
\* which raises or returns a response, and what the loop does with it; after
\* the last provider, the code that follows the loop.
provider_call(raised, response) ==
  /\ pc = "generate"
  /\ at = "loop"
  /\ LET entry == providers[next_provider]
         best == IF ~raised /\ response # <<>> /\ ~HasHeader(response)
                 THEN KeepBest(best_response, response)
                 ELSE best_response
         then == AfterCall(raised, response, best, next_provider = Len(providers))
     IN /\ attempted' = Append(attempted, entry)
        /\ received' = Append(received, Answer(raised, response))
        /\ provider_calls' = [provider_calls EXCEPT ![entry] = @ + 1]
        /\ best_response' = best
        /\ IF then = "return"
           THEN /\ llm_output' = response
                /\ StageReturns("format")
                /\ UNCHANGED <<next_provider, outcome>>
           ELSE IF then = "next"
           THEN /\ next_provider' = next_provider + 1
                /\ external_calls' = external_calls + 1
                /\ UNCHANGED <<control, llm_output, outcome, attempt_error,
                               component_error, returned, invalid_evals>>
           ELSE IF then = "return_best"
           THEN /\ llm_output' = best
                /\ StageReturns("format")
                /\ UNCHANGED <<next_provider, outcome>>
           ELSE /\ external_calls' = external_calls + 1
                /\ ComponentFails(comp_attempt, AllProvidersFailed)
                /\ UNCHANGED <<next_provider, llm_output, returned, invalid_evals>>
  /\ UNCHANGED <<components, setup, query, embedding, documents, reranked_docs, providers,
                 started, traversals>>

\* ----------------------------------------------------- the formatter's text

\* \s, and what strip() removes.
Whitespace(c) == c \in {NL, SP}
\* A run of two or more asterisks.
Emphasis == "**"
\* The pieces that `(?:Final Answer|Answer|Conclusion):` matches, and those
\* that `(?:Reasoning|Analysis):?` matches.
AnswerHeaders == {FinalAnswerHeader, "Answer:", "Conclusion:"}
ReasoningHeaders == {ReasoningLabel, "Analysis:"}
\* The pieces that `(?:Final Answer|Answer|Conclusion):?` matches: the colon is
\* optional and case is ignored, so the word in running text matches as well.
AnswerWords == AnswerHeaders \cup {"conclusion"}
\* The pieces that begin with R or r, which `[^R]` under IGNORECASE rejects.
BeginWithR == {ReasoningLabel}
\* The final answer when the fallback search finds none.
Sentinel ==
  <<"No conclusive answer could be extracted from the LLM output due to formatting issues.">>

\* The leftmost position of a set of positions: re.split and re.search take
\* the leftmost match.
Least(S) == CHOOSE x \in S : \A y \in S : x <= y

\* str.strip()
Strip(t) ==
  LET ink == {i \in 1..Len(t) : ~Whitespace(t[i])}
  IN IF ink = {} THEN <<>>
     ELSE SubSeq(t, Least(ink), CHOOSE x \in ink : \A y \in ink : y <= x)

\* re.sub(r'\*{2,}', '', t).strip()
Clean(t) == Strip(SelectSeq(t, LAMBDA c : c # Emphasis))

\* llm_output.replace('\r\n', '\n').strip()
Normalized(t) == Strip([i \in 1..Len(t) |-> IF t[i] = CRLF THEN NL ELSE t[i]])

\* Whether `\n\s*Final Answer:\s*\n` matches around position i of t: the header
\* with a line break in the whitespace before it and one in the whitespace
\* after it.
HeaderLineAt(t, i) ==
  /\ t[i] = FinalAnswerHeader
  /\ \E j \in 1..(i - 1) : t[j] = NL /\ \A k \in j..(i - 1) : Whitespace(t[k])
  /\ \E j \in (i + 1)..Len(t) : t[j] = NL /\ \A k \in (i + 1)..j : Whitespace(t[k])

\* Group 1 of the fallback's answer pattern
\*   (?:Final Answer|Answer|Conclusion):?\s*\n?(.*?)(?:\n\s*$|\n\s*[^R])
\* matched at the header at position i of the stripped text t, or NoText if
\* it does not match there.  The text ends with no whitespace, so `\n\s*$`
\* never matches; the lazy group ends at the first line break that a piece
\* not beginning with R follows.  When there is none after the whitespace
\* that follows the header, the pattern backtracks into that whitespace and
\* the group is empty.
AnswerCapture(t, i) ==
  LET w == CHOOSE x \in i..Len(t) :
             /\ \A k \in (i + 1)..x : Whitespace(t[k])
             /\ x = Len(t) \/ ~Whitespace(t[x + 1])
      Ends(from, to) ==
        {q \in from..to : t[q] = NL /\ q < Len(t) /\ t[q + 1] \notin BeginWithR}
  IN IF Ends(w + 1, Len(t)) # {}
     THEN SubSeq(t, w + 1, Least(Ends(w + 1, Len(t))) - 1)
     ELSE IF Ends(i + 1, w) # {} THEN <<>>
     ELSE NoText

\* final_answer of the fallback: group 1 of the leftmost match, stripped, or
\* the sentinel.
FallbackAnswer(t) ==
  LET hits == {i \in 1..Len(t) : t[i] \in AnswerWords /\ AnswerCapture(t, i) # NoText}
  IN IF hits = {} THEN Sentinel ELSE Strip(AnswerCapture(t, Least(hits)))

\* reasoning of the fallback: group 1 of
\*   (?:Reasoning|Analysis):?\s*\n?(.*?)(?=(?:Final Answer|Answer|Conclusion):|\n\s*$)
\* stripped, which runs from the first reasoning header to the first answer
\* header after it; the whole text if the pattern does not match.
FallbackReasoning(t) ==
  LET labels == {i \in 1..Len(t) : t[i] \in ReasoningHeaders}
      ends == {e \in (Least(labels) + 1)..Len(t) : t[e] \in AnswerHeaders}
  IN IF labels = {} THEN t
     ELSE IF ends = {} THEN t
     ELSE Strip(SubSeq(t, Least(labels) + 1, Least(ends) - 1))

\* ResponseService._parse_llm_output
parse_llm_output(llm_text) ==
  LET t == Normalized(llm_text)
      lines == {i \in 1..Len(t) : HeaderLineAt(t, i)}
      before == Strip(SubSeq(t, 1, Least(lines) - 1))
  IN IF lines # {}
     THEN [reasoning |->
             Clean(IF before # <<>> /\ Head(before) = ReasoningLabel
                   THEN Strip(Tail(before)) ELSE before),
           final_answer |-> Clean(Strip(SubSeq(t, Least(lines) + 1, Len(t))))]
     ELSE [reasoning |-> Clean(FallbackReasoning(t)),
           final_answer |-> Clean(FallbackAnswer(t))]

\* ------------------------------------------------------------- citations

\* `sub in text`
Occurs(sub, text) ==
  \E i \in 1..(Len(text) - Len(sub) + 1) : SubSeq(text, i, i + Len(sub) - 1) = sub

\* f"{case_title} {media_neutral}"
Citation(metadata) ==
  metadata.case_title \o <<SP>> \o metadata.media_neutral_citation

RECURSIVE CitationPass_unseen(_, _, _, _, _)
\* A loop that does not look at seen_citations.
CitationPass_unseen(docs, llm_text, every, citations, seen) ==
  IF docs = <<>> THEN citations
  ELSE LET metadata == Head(docs)
           taken ==
             /\ metadata.case_title # <<>>
             /\ metadata.media_neutral_citation # <<>>
             /\ \/ every
                \/ Occurs(Citation(metadata), llm_text)
                \/ Occurs(metadata.case_title, llm_text)
       IN CitationPass_unseen(Tail(docs), llm_text, every,
                              IF taken THEN Append(citations, Citation(metadata))
                              ELSE citations,
                              seen)

RECURSIVE CitationPass(_, _, _, _, _)
\* One loop of _extract_citations over the metadata of the passages docs:
\* the first loop (every = FALSE) takes a passage only if its citation or its
\* title occurs in the output, the second (every = TRUE) takes each; both skip
\* a passage without a title or an identifier, or whose identifier is in seen.
CitationPass(docs, llm_text, every, citations, seen) ==
  IF docs = <<>> THEN citations
  ELSE LET metadata == Head(docs)
           taken ==
             /\ metadata.case_title # <<>>
             /\ metadata.media_neutral_citation # <<>>
             /\ metadata.media_neutral_citation \notin seen
             /\ \/ every
                \/ Occurs(Citation(metadata), llm_text)
                \/ Occurs(metadata.case_title, llm_text)
       IN CitationPass(Tail(docs), llm_text, every,
                       IF taken THEN Append(citations, Citation(metadata))
                       ELSE citations,
                       IF taken THEN seen \cup {metadata.media_neutral_citation}
                       ELSE seen)

\* An extraction that lists every passage, referenced or not.
extract_citations_every(docs, llm_text) == CitationPass(docs, llm_text, TRUE, <<>>, {})

\* ResponseService._extract_citations
extract_citations(docs, llm_text) ==
  LET citations == CitationPass(docs, llm_text, FALSE, <<>>, {})
  IN IF citations # <<>> THEN citations
     ELSE CitationPass(docs, llm_text, TRUE, <<>>, {})

\* citations[:self.config.max_citations]
Truncated(citations) ==
  SubSeq(citations, 1, IF Len(citations) < MaxCitations THEN Len(citations)
                       ELSE MaxCitations)

\* ----------------------------------------------------------------- format

\* run_response_formatting, one attempt up to the call of the formatter.
run_response_formatting ==
  /\ StageStarts("format")
  /\ Control(pc, "call", stage_attempt + 1, 0)
  /\ UNCHANGED <<components, setup, query, locals, loop, outcome, attempt_error, component_error,
                 returned,
                 traversals, provider_calls, invalid_evals, external_calls>>

\* Input checks that accept an empty list of passages.
FormatInputError_anylist ==
  IF Empty(query) THEN ValueError("Query must be a non-empty string.")
  ELSE IF llm_output = <<>> THEN ValueError("LLM output must be a non-empty string.")
  ELSE NoError

\* The input checks of generate_response.
FormatInputError ==
  IF Empty(query) THEN ValueError("Query must be a non-empty string.")
  ELSE IF llm_output = <<>> THEN ValueError("LLM output must be a non-empty string.")
  ELSE IF reranked_docs = <<>>
       THEN ValueError("Documents must be a non-empty list of Document objects.")
  ELSE NoError

\* The metadata of the index record id: its case title and its citation
\* identifier.  The records have different citations.
IndexMetadata(id) ==
  CASE id = 1 -> [case_title |-> <<"A">>, media_neutral_citation |-> <<"C">>]
    [] id = 2 -> [case_title |-> <<"B">>, media_neutral_citation |-> <<"D">>]
    [] id = 3 -> [case_title |-> <<"A", SP, "B">>,
                  media_neutral_citation |-> <<"B", SP, "C">>]
    [] OTHER -> [case_title |-> <<"B">>, media_neutral_citation |-> <<"C">>]

\* A formatting stage that is given the retrieved passages.
FormatterDocuments_retrieved == documents

\* The passages run gives run_response_formatting (line 226): the reranked
\* ones.
FormatterDocuments == reranked_docs

\* A result that lists the retrieved passages.
Result_unranked ==
  [query |-> query, embedding |-> embedding, documents |-> documents,
   final_answer |-> parse_llm_output(llm_output).final_answer,
   citations |->
     Truncated(extract_citations(
       [i \in 1..Len(FormatterDocuments) |-> IndexMetadata(FormatterDocuments[i].id)],
       llm_output))]

\* The dictionary run returns: the query and what generate_response derived
\* from llm_output and the passages it was given, with the embedding and the
\* reranked passages.
Result ==
  [query |-> query, embedding |-> embedding, documents |-> reranked_docs,
   final_answer |-> parse_llm_output(llm_output).final_answer,
   citations |->
     Truncated(extract_citations(
       [i \in 1..Len(FormatterDocuments) |-> IndexMetadata(FormatterDocuments[i].id)],
       llm_output))]

\* ResponseService.generate_response(query, llm_output, reranked_docs), one
\* attempt, and on its success the rest of run: the result is assembled and
\* returned.
generate_response ==
  /\ pc = "format"
  /\ at = "call"
  /\ IF FormatInputError # NoError
     THEN /\ invalid_evals' = invalid_evals + 1
          /\ ComponentFails(comp_attempt + 1, FormatInputError)
          /\ UNCHANGED <<returned, external_calls>>
     ELSE /\ result' = Result
          /\ StageReturns("done")
          /\ UNCHANGED <<error, failed_stage>>
  /\ UNCHANGED <<components, setup, query, locals, loop, started, traversals,
                 provider_calls>>

\* ------------------------------------------------- the formatter, on its own

\* The pieces of the outputs the model enumerates.
TextAlphabet == {NL, SP, FinalAnswerHeader, ReasoningLabel, Emphasis, "x"}
Texts == UNION {[1..n -> TextAlphabet] : n \in 0..MaxText}
\* The pieces of the outputs without a Final Answer: header: a Conclusion:
\* header, and the word in running text.
FallbackAlphabet == {NL, SP, ReasoningLabel, "Conclusion:", "conclusion", "x"}
FallbackTexts == UNION {[1..n -> FallbackAlphabet] : n \in 0..MaxFallback}

\* The metadata passages carry: a title and an identifier, each possibly
\* missing.
CaseTitles == {<<>>, <<"A">>, <<"A", SP, "B">>}
Identifiers == {<<>>, <<"C">>, <<"B", SP, "C">>, <<"D">>}
Metadatas == [case_title : CaseTitles, media_neutral_citation : Identifiers]
MetadataLists == UNION {[1..n -> Metadatas] : n \in 0..MaxCited}
\* Outputs that name no title, the title A, both titles and a whole citation,
\* or the title A between the two headers, with Windows line ends.
CitingTexts ==
  { <<>>,
    <<"x">>,
    <<"B", SP, "A">>,
    <<"A", SP, "B", SP, "C">>,
    <<ReasoningLabel, CRLF, "A", CRLF, FinalAnswerHeader, CRLF, "x">> }

\* A formatter service and the arguments its caller holds: any output with
\* one passage, or one of the citing outputs with any list of passages.  The
\* outputs with one passage are those with a Final Answer: header or with a
\* Conclusion: header.
InitFormat ==
  /\ PipelineInit(<<>>, None, "absent")
  /\ ConstructionOver
  /\ RerankIdle
  /\ RetrieveIdle
  /\ ServeIdle
  /\ format_outcome = NoResult
  /\ \/ /\ format_query = "q"
        /\ format_llm_output \in Texts \cup FallbackTexts
        /\ format_documents =
             <<[case_title |-> <<"A">>, media_neutral_citation |-> <<"C">>]>>
     \/ /\ format_query \in Queries
        /\ format_llm_output \in CitingTexts
        /\ format_documents \in MetadataLists

\* The input checks of generate_response for these arguments.
InputError(q, llm_text, docs) ==
  IF Empty(q) THEN ValueError("Query must be a non-empty string.")
  ELSE IF llm_text = <<>> THEN ValueError("LLM output must be a non-empty string.")
  ELSE IF docs = <<>>
       THEN ValueError("Documents must be a non-empty list of Document objects.")
  ELSE NoError

\* ResponseService.generate_response(format_query, format_llm_output,
\* format_documents), one attempt: the input checks, the parse, the extraction
\* of the citations and their truncation.  The outcome keeps, beside the
\* dictionary returned, the locals reasoning and citations.
ResponseService_generate_response ==
  /\ pc = "absent"
  /\ format_outcome = NoResult
  /\ LET raised == InputError(format_query, format_llm_output, format_documents)
         parsed == parse_llm_output(format_llm_output)
         citations == extract_citations(format_documents, format_llm_output)
     IN format_outcome' =
          IF raised # NoError THEN [raised |-> raised]
          ELSE [raised |-> NoError,
                reasoning |-> parsed.reasoning,
                citations |-> citations,
                response |-> [query |-> format_query,
                              final_answer |-> parsed.final_answer,
                              citations |-> Truncated(citations)]]
  /\ UNCHANGED <<construction, concurrent, reranking, retrieving, serving, format_query, format_llm_output,
                 format_documents, setup, query, control, locals, loop, outcome,
                 attempt_error, component_error, started, returned, traversals,
                 provider_calls, invalid_evals, external_calls>>

NextFormat == ResponseService_generate_response

SpecFormat == InitFormat /\ [][NextFormat]_vars

\* ------------------------------------------------------------------- spec

Orders == UNION {[1..n -> 1..MaxProviders] : n \in 1..MaxProviders}
ScoreLists == UNION {[1..n -> Scores] : n \in 0..MaxDocs}

Next ==
  \/ \E q \in Queries : run(q)
  \/ run_embedding
  \/ \E ok \in BOOLEAN : embed(ok)
  \/ run_retrieval
  \/ \E ok \in BOOLEAN, match \in Matches : retrieve(ok, match)
  \/ run_reranking
  \/ \E ok \in BOOLEAN, scores \in ScoreLists : rerank(ok, scores)
  \/ run_generation
  \/ \E order \in Orders : generate(order)
  \/ \E raised \in BOOLEAN, response \in Responses : provider_call(raised, response)
  \/ run_response_formatting
  \/ generate_response

Spec == Init /\ [][Next]_vars

\* The steps of a run in progress up to the call of the formatter: each is a
\* check, or an external call that has returned or raised.
RunStep ==
  \/ run_embedding
  \/ \E ok \in BOOLEAN : embed(ok)
  \/ run_retrieval
  \/ \E ok \in BOOLEAN, match \in Matches : retrieve(ok, match)
  \/ run_reranking
  \/ \E ok \in BOOLEAN, scores \in ScoreLists : rerank(ok, scores)
  \/ run_generation
  \/ \E order \in Orders : generate(order)
  \/ \E raised \in BOOLEAN, response \in Responses : provider_call(raised, response)
  \/ run_response_formatting

\* The call of generate_response is over: it returned or raised, and control
\* is at the end of run, at another attempt, or at the failure.  Every
\* generate_response step is such a step, and it moves control.
generate_response_over ==
  /\ pc = "format"
  /\ at = "call"
  /\ \E p \in {"format", "done", "failed"}, a \in {"stage", "call"},
        sa \in 0..MaxAttempts, ca \in 0..MaxAttempts : Control(p, a, sa, ca)

\* The pipeline when every external call eventually returns or raises, and
\* the event loop eventually resumes the run: the run does not wait for ever
\* at a check, at a call, or in the formatter.
SpecLive ==
  /\ Init
  /\ [][Next]_vars
  /\ WF_vars(RunStep)
  /\ WF_control(generate_response_over)

\* The pipeline when every external service answers: no call raises, the
\* index returns up to MaxRetrieved matches, all with metadata, and a provider
\* answers with any of the responses.
AnsweredMatches == {[n |-> n, with_metadata |-> 1..n] : n \in 0..MaxRetrieved}
AnsweredScores == UNION {[1..n -> Scores] : n \in 0..MaxRetrieved}

NextAnswered ==
  \/ \E q \in Queries : run(q)
  \/ run_embedding
  \/ embed(TRUE)
  \/ run_retrieval
  \/ \E match \in AnsweredMatches : retrieve(TRUE, match)
  \/ run_reranking
  \/ \E scores \in AnsweredScores : rerank(TRUE, scores)
  \/ run_generation
  \/ \E order \in Orders : generate(order)
  \/ \E response \in Responses : provider_call(FALSE, response)
  \/ run_response_formatting
  \/ generate_response

SpecAnswered == Init /\ [][NextAnswered]_vars

\* The pipeline when only the LLM providers fail: a provider raises, answers
\* nothing, or answers with a text with the Final Answer: header or with one
\* of two texts without it.
FallbackResponses == Responses \cup {<<"y">>}

NextFallback ==
  \/ \E q \in Queries : run(q)
  \/ run_embedding
  \/ embed(TRUE)
  \/ run_retrieval
  \/ \E match \in Matches : retrieve(TRUE, match)
  \/ run_reranking
  \/ \E scores \in ScoreLists : rerank(TRUE, scores)
  \/ run_generation
  \/ \E order \in Orders : generate(order)
  \/ \E raised \in BOOLEAN, response \in FallbackResponses :
       provider_call(raised, response)
  \/ run_response_formatting
  \/ generate_response

SpecFallback == Init /\ [][NextFallback]_vars

\* ---------------------------------------------------------------- the API

\* The users a request may name, and what the lookup of verify_user gives: a
\* row, no row, or an exception.
Users == {"u1", "u2"}
Lookups == {"found", "missing", "error"}

\* What pipeline.run gave process_query: an exception, or a result.
RunOutcome(raised, run_result) == [raised |-> raised, result |-> run_result]
\* The handler did not reach pipeline.run.
NotCalled == RunOutcome(NoError, NoResult)

\* The exceptions of run: its except clause wraps whatever a stage raised.
RunFailures ==
  {Wrap("Pipeline failed", RetryError(e)) :
     e \in {ValueError("Query must be a non-empty string."),
            Wrap("Generation failed", RetryError(AllProvidersFailed))}}

\* The results of run for a query: the parsed answer with a citation, or the
\* sentinel with none.
RunResults(q) ==
  {[query |-> q, embedding |-> QueryVector,
    documents |-> <<[id |-> 1, rerank_score |-> 1]>>,
    final_answer |-> answer.final_answer, citations |-> answer.citations] :
     answer \in {[final_answer |-> <<"x">>,
                  citations |-> <<Citation(IndexMetadata(1))>>],
                 [final_answer |-> Sentinel, citations |-> <<>>]}}

RunOutcomes(q) ==
  {RunOutcome(e, NoResult) : e \in RunFailures}
    \cup {RunOutcome(NoError, r) : r \in RunResults(q)}

\* raise HTTPException(status_code, detail)
HTTPException(status_code, detail) == [status_code |-> status_code, detail |-> detail]
\* return QueryResponse(final_answer, citations, error): the body of a 200
\* response; NoText is error=None.
QueryResponse(final_answer, citations, err) ==
  [status_code |-> 200, final_answer |-> final_answer, citations |-> citations,
   error |-> err]

\* An error payload that carries the default answer.
ErrorPayload_answer(e) == QueryResponse(<<"No answer generated">>, <<>>, e.msg)

\* The `except Exception` clause of process_query.
ErrorPayload(e) == QueryResponse(<<>>, <<>>, e.msg)

\* chat_data that stores the default answer.
ChatRow_default(user_id, q, run_result) ==
  [user_id |-> user_id, query |-> q, response |-> <<"No answer generated">>,
   citations |-> <<>>, tags |-> <<>>]

\* chat_data
ChatRow(user_id, q, run_result) ==
  [user_id |-> user_id, query |-> q, response |-> run_result.final_answer,
   citations |-> run_result.citations, tags |-> <<>>]

\* The API process, started: the module of main.py has built its pipeline,
\* and no request has come.
InitService ==
  /\ PipelineInit(<<>>, None, "absent")
  /\ ConstructionOver
  /\ RerankIdle
  /\ FormatIdle
  /\ RetrieveIdle
  /\ ServeIdle

\* process_query for one request, with the dependency verify_api_key before
\* it: the key check, verify_user (whose except clause turns its own 404 into
\* a 500), pipeline.run, the insert into chat_history, and the response.
process_query(q, user_id, authorized, lookup, run_outcome, insert_ok) ==
  /\ pc = "absent"
  /\ Len(exchanges) < MaxRequests
  /\ LET ran == IF authorized /\ lookup = "found" THEN run_outcome ELSE NotCalled
         stored == ran.result # NoResult /\ insert_ok
         response ==
           IF ~authorized THEN HTTPException(401, "Invalid API key")
           ELSE IF lookup # "found" THEN HTTPException(500, "Internal server error")
           ELSE IF ran.raised # NoError THEN ErrorPayload(ran.raised)
           ELSE IF ~insert_ok THEN ErrorPayload(ExternalError)
           ELSE QueryResponse(ran.result.final_answer, ran.result.citations, NoText)
     IN /\ exchanges' =
             Append(exchanges,
                    [query |-> q, user_id |-> user_id,
                     lookup |-> IF authorized THEN lookup ELSE "skipped",
                     run |-> ran, response |-> response])
        /\ chat_history' =
             IF stored THEN Append(chat_history, ChatRow(user_id, q, ran.result))
             ELSE chat_history
  /\ UNCHANGED <<construction, concurrent, reranking, formatting, retrieving, setup, query,
                 control, locals, loop, outcome, attempt_error, component_error,
                 started, returned, traversals, provider_calls, invalid_evals,
                 external_calls>>

NextService ==
  \E q \in Queries, user_id \in Users, authorized \in BOOLEAN, lookup \in Lookups,
     insert_ok \in BOOLEAN :
    \E run_outcome \in RunOutcomes(q) :
      process_query(q, user_id, authorized, lookup, run_outcome, insert_ok)

SpecService == InitService /\ [][NextService]_vars

\* ---------------------------------------------------- two runs at once

\* The two calls of run that the event loop interleaves, and their queries.
Tasks == {1, 2}
TaskQueries == <<"q1", "q2">>

\* The services answer a request by what the request holds.  The vector of a
\* query; the index record nearest to a vector; the score of a passage for a
\* query; the title a prompt's context shows.
VectorOf(q) == <<"v", q>>
RecordOf(vector) == IF vector = VectorOf(TaskQueries[1]) THEN 1 ELSE 2
ScoreOf(q) == IF q = TaskQueries[1] THEN 1 ELSE 0
ContextOf(docs) == IF docs = <<>> THEN <<"x">> ELSE IndexMetadata(docs[1].id).case_title

\* What the index answers for a vector: no match, or records of which the
\* nearest one carries metadata.
MatchFor(vector, found) ==
  IF found THEN [n |-> RecordOf(vector), with_metadata |-> {RecordOf(vector)}]
  ELSE [n |-> 0, with_metadata |-> {}]

\* What a provider answers a prompt built from a query and passages: nothing,
\* a text without headers, or a text with both headers that names the title of
\* the context and answers with the query's word.
ResponseKinds == {"empty", "plain", "full"}
ResponseFor(kind, q, docs) ==
  CASE kind = "empty" -> <<>>
    [] kind = "plain" -> <<q>>
    [] kind = "full" ->
         <<ReasoningLabel, NL>> \o ContextOf(docs) \o <<NL, FinalAnswerHeader, NL, q>>

\* A call of run that has not executed yet, and its frame.
NewTask(q) ==
  [query |-> q, pc |-> "embed", at |-> "call", stage_attempt |-> 0,
   comp_attempt |-> 0, result |-> NoResult, error |-> NoError]
NewFrame ==
  [embedding |-> NoText, documents |-> NoDocs, reranked_docs |-> NoDocs,
   llm_output |-> NoText, providers |-> <<>>, next_provider |-> 0,
   best_response |-> NoText]

\* Locals kept on the pipeline object, which the two calls share.
Frame_shared(t) == 1

\* Where a call keeps embedding, documents, reranked_docs, llm_output and the
\* loop variables of generate: they are locals, and each call of a coroutine
\* function has a frame of its own.
Frame(t) == t

\* The pipeline with two providers for its model, and two calls of run
\* created on it.
InitConcurrent ==
  /\ PipelineInit(<<[model_name |-> "m1", provider |-> "groq"],
                    [model_name |-> "m1", provider |-> "openai"]>>, "m1", "idle")
  /\ ConstructionOver
  /\ RerankIdle
  /\ FormatIdle
  /\ RetrieveIdle
  /\ exchanges = <<>>
  /\ chat_history = <<>>
  /\ tasks = [t \in Tasks |-> NewTask(TaskQueries[t])]
  /\ frames = [t \in Tasks |-> NewFrame]

\* The two retry wrappers around a component attempt that raised e: the
\* component's own @retry starts another attempt, after its third the stage
\* wrapper's @retry starts the component call again, and after the third
\* failure of the stage run raises.
TaskFails(task, e) ==
  IF task.comp_attempt + 1 < MaxAttempts
  THEN [task EXCEPT !.comp_attempt = @ + 1, !.at = "call"]
  ELSE IF task.stage_attempt + 1 < MaxAttempts
  THEN [task EXCEPT !.comp_attempt = 0, !.stage_attempt = @ + 1, !.at = "call"]
  ELSE [task EXCEPT
          !.pc = "failed", !.at = "call", !.stage_attempt = MaxAttempts,
          !.error = Wrap("Pipeline failed",
                         RetryError(Wrap(StagePrefix(task.pc), RetryError(e))))]

\* A stage returned: the call goes on to the next stage.
TaskReturns(task) ==
  [task EXCEPT !.pc = NextOf(task.pc), !.at = "call", !.stage_attempt = 0,
               !.comp_attempt = 0]

\* The step leaves the pipeline and every other component alone.
TaskStep ==
  UNCHANGED <<construction, reranking, formatting, retrieving, serving, setup,
              query, control, locals, loop, outcome, attempt_error,
              component_error, started, returned, traversals, provider_calls,
              invalid_evals, external_calls>>

\* One attempt of embed in call t, up to the next await.  (The queries of both
\* calls are questions, so the input checks of the stages pass.)
Task_embed(t, ok) ==
  /\ tasks[t].pc = "embed"
  /\ IF ok
     THEN /\ frames' = [frames EXCEPT ![Frame(t)].embedding = VectorOf(tasks[t].query)]
          /\ tasks' = [tasks EXCEPT ![t] = TaskReturns(@)]
     ELSE /\ tasks' = [tasks EXCEPT ![t] = TaskFails(@, Wrap("Embedding failed", ExternalError))]
          /\ UNCHANGED frames
  /\ TaskStep

\* One attempt of retrieve in call t.
Task_retrieve(t, ok, found) ==
  /\ tasks[t].pc = "retrieve"
  /\ IF ok
     THEN /\ frames' = [frames EXCEPT ![Frame(t)].documents =
                          Candidates(MatchFor(frames[Frame(t)].embedding, found), 1)]
          /\ tasks' = [tasks EXCEPT ![t] = TaskReturns(@)]
     ELSE /\ tasks' = [tasks EXCEPT ![t] = TaskFails(@, Wrap("Retrieval failed", ExternalError))]
          /\ UNCHANGED frames
  /\ TaskStep

\* One attempt of rerank in call t: the passages are scored in place.
Task_rerank(t, ok) ==
  /\ tasks[t].pc = "rerank"
  /\ LET docs == frames[Frame(t)].documents
         scored == Scored(docs, [i \in 1..Len(docs) |-> ScoreOf(tasks[t].query)])
     IN IF NoDocuments(docs)
        THEN /\ frames' = [frames EXCEPT ![Frame(t)].reranked_docs = <<>>]
             /\ tasks' = [tasks EXCEPT ![t] = TaskReturns(@)]
        ELSE IF ok
        THEN /\ frames' = [frames EXCEPT ![Frame(t)].documents = scored,
                                         ![Frame(t)].reranked_docs =
                                           TopCut(SortedByScore(scored))]
             /\ tasks' = [tasks EXCEPT ![t] = TaskReturns(@)]
        ELSE /\ tasks' = [tasks EXCEPT ![t] =
                            TaskFails(@, Wrap("Reranking failed", ExternalError))]
             /\ UNCHANGED frames
  /\ TaskStep

\* One attempt of generate in call t, up to its first provider call: the
\* matching entries of the registry are copied and the copy is shuffled.
Task_generate(t, order) ==
  /\ tasks[t].pc = "generate"
  /\ tasks[t].at = "call"
  /\ order \in Shuffles(Matching(model_id))
  /\ frames' = [frames EXCEPT ![Frame(t)].providers = order,
                              ![Frame(t)].next_provider = 1,
                              ![Frame(t)].best_response = NoText]
  /\ tasks' = [tasks EXCEPT ![t].at = "loop"]
  /\ TaskStep

\* One iteration of the provider loop in call t, and after the last provider
\* the code that follows the loop.
Task_provider_call(t, raised, kind) ==
  /\ tasks[t].pc = "generate"
  /\ tasks[t].at = "loop"
  /\ LET frame == frames[Frame(t)]
         response == ResponseFor(kind, tasks[t].query, frame.reranked_docs)
         best == IF ~raised /\ response # <<>> /\ ~HasHeader(response)
                 THEN KeepBest(frame.best_response, response)
                 ELSE frame.best_response
         then == AfterCall(raised, response, best,
                           frame.next_provider >= Len(frame.providers))
     IN IF then = "return"
        THEN /\ frames' = [frames EXCEPT ![Frame(t)].llm_output = response,
                                         ![Frame(t)].best_response = best]
             /\ tasks' = [tasks EXCEPT ![t] = TaskReturns(@)]
        ELSE IF then = "next"
        THEN /\ frames' = [frames EXCEPT ![Frame(t)].next_provider = @ + 1,
                                         ![Frame(t)].best_response = best]
             /\ UNCHANGED tasks
        ELSE IF then = "return_best"
        THEN /\ frames' = [frames EXCEPT ![Frame(t)].llm_output = best,
                                         ![Frame(t)].best_response = best]
             /\ tasks' = [tasks EXCEPT ![t] = TaskReturns(@)]
        ELSE /\ frames' = [frames EXCEPT ![Frame(t)].best_response = best]
             /\ tasks' = [tasks EXCEPT ![t] = TaskFails(@, AllProvidersFailed)]
  /\ TaskStep

\* What generate_response and the end of run make of the locals of a frame.
ResultOf(q, frame) ==
  [query |-> q, embedding |-> frame.embedding, documents |-> frame.reranked_docs,
   final_answer |-> parse_llm_output(frame.llm_output).final_answer,
   citations |->
     Truncated(extract_citations(
       [i \in 1..Len(frame.reranked_docs) |-> IndexMetadata(frame.reranked_docs[i].id)],
       frame.llm_output))]

\* One attempt of generate_response in call t, and on its success the rest
\* of run.  There is no await in it that suspends the call.
Task_generate_response(t) ==
  /\ tasks[t].pc = "format"
  /\ LET frame == frames[Frame(t)]
         raised == InputError(tasks[t].query, frame.llm_output, frame.reranked_docs)
     IN IF raised # NoError
        THEN tasks' = [tasks EXCEPT ![t] = TaskFails(@, raised)]
        ELSE tasks' = [tasks EXCEPT ![t] =
                         [TaskReturns(@) EXCEPT
                            !.result = ResultOf(tasks[t].query, frame)]]
  /\ UNCHANGED frames
  /\ TaskStep

NextConcurrent ==
  \E t \in Tasks :
    \/ \E ok \in BOOLEAN : Task_embed(t, ok)
    \/ \E ok \in BOOLEAN, found \in BOOLEAN : Task_retrieve(t, ok, found)
    \/ \E ok \in BOOLEAN : Task_rerank(t, ok)
    \/ \E order \in Orders : Task_generate(t, order)
    \/ \E raised \in BOOLEAN, kind \in ResponseKinds :
         Task_provider_call(t, raised, kind)
    \/ Task_generate_response(t)

SpecConcurrent == InitConcurrent /\ [][NextConcurrent]_vars

\* ----------------------------------------------------------------- claims

Range(seq) == {seq[i] : i \in 1..Len(seq)}
\* The words of str(e).
Words(e) == Range(e.msg)

\* C1: in every run the five stages start in the order embed, retrieve,
\* rerank, generate, format, and a stage starts only when the stage before it
\* has returned its output.
C1_StagesInOrder ==
  /\ Len(started) <= Len(Stages)
  /\ Len(returned) <= Len(started)
  /\ Len(started) <= Len(returned) + 1
  /\ \A i \in 1..Len(started) : started[i] = Stages[i]
  /\ \A i \in 1..Len(returned) : returned[i] = Stages[i]
  /\ Len(started) >= 2 => embedding # NoText
  /\ Len(started) >= 3 => documents # NoDocs
  /\ Len(started) >= 4 => reranked_docs # NoDocs
  /\ Len(started) >= 5 => llm_output # NoText

\* A run in which all five stages have started.
C1_Witness == pc = "format" /\ at = "call" /\ started = Stages

\* C2: when a stage has exhausted its retries, run raises and returns nothing:
\* no later stage has started, and only a run whose five stages all returned
\* hands a result to the caller.
C2_AllOrNothing ==
  /\ pc = "failed" =>
       /\ error.kind = "RuntimeError"
       /\ result = NoResult
       /\ started # <<>>
       /\ started[Len(started)] = failed_stage
       /\ Len(returned) = Len(started) - 1
  /\ (pc \in StageSet /\ at = "stage") => stage_attempt < MaxAttempts
  /\ result # NoResult => (pc = "done" /\ returned = Stages /\ error = NoError)

\* A run that failed in generation, after three stages had produced output.
C2_Witness ==
  /\ pc = "failed"
  /\ failed_stage = "generate"
  /\ embedding # NoText
  /\ reranked_docs # NoDocs
  /\ reranked_docs # <<>>

\* The attempts of the stage wrappers, in the states of a run.
C3_Attempts ==
  /\ stage_attempt \in 0..MaxAttempts
  /\ pc = "failed" => stage_attempt = MaxAttempts
  /\ (pc \in StageSet /\ at = "stage") => stage_attempt < MaxAttempts

\* The attempts of the stage wrappers, in the steps of a run.
C3_Steps ==
  /\ stage_attempt' > stage_attempt =>
       /\ stage_attempt' = stage_attempt + 1
       /\ at = "stage"
       /\ pc \in StageSet
       /\ pc' \in {pc, "failed"}
  /\ (pc \in StageSet /\ pc' \notin {pc, "failed"}) =>
       /\ stage_attempt \in 1..MaxAttempts
       /\ returned' = Append(returned, pc)
       /\ pc' = NextOf(pc)
       /\ stage_attempt' = 0
  /\ (pc \in StageSet /\ pc' = "failed") => stage_attempt' = MaxAttempts

\* C3: a stage is attempted at most 3 times in a run; an attempt after the
\* first starts only when the one before it failed; a success on any attempt
\* takes the run to the next stage; the third failure aborts the run.
C3_RetryPolicy == [](C3_Attempts) /\ [][C3_Steps]_vars

\* The third attempt of a stage, running after two failures.
C3_Witness == pc = "rerank" /\ at = "call" /\ stage_attempt = MaxAttempts

\* C4: the retry policy is applied once to generation: a run starts the
\* router's provider traversal at most 3 times, so it calls every matching
\* provider at most 3 times.
C4_RetryAppliedOnce ==
  /\ traversals <= MaxAttempts
  /\ \A i \in DOMAIN provider_calls : provider_calls[i] <= MaxAttempts

\* The stage a failed precondition check belongs to.
CurrentStage == IF pc = "failed" THEN failed_stage ELSE pc

\* C5: a call that fails an input precondition is not retried: the check is
\* evaluated once, and no external call is made.
C5_InvalidInputNotRetried ==
  CurrentStage \in {"embed", "retrieve", "rerank", "format"} =>
    /\ invalid_evals <= 1
    /\ invalid_evals = 1 => external_calls = 0

\* C6: when a stage has exhausted its retries on a failing component, the
\* error run raises names that stage and carries the component's own error.
C6_ErrorNamesStage ==
  (pc = "failed" /\ attempt_error.kind = "RuntimeError") =>
    /\ StagePrefix(failed_stage) \in Words(error)
    /\ Words(attempt_error) \subseteq Words(error)

\* A provider answer the router can return.
Usable(answer) == ~answer.raised /\ answer.response # <<>>

\* The latest traversal of the provider loop ended by raising.
TraversalFailed ==
  /\ attempted # <<>>
  /\ \/ pc = "generate" /\ at # "loop"
     \/ pc = "failed" /\ failed_stage = "generate"

\* The latest traversal of the provider loop returned a response.
TraversalReturned ==
  \/ pc \in {"format", "done"}
  \/ pc = "failed" /\ failed_stage = "format"

\* C7: a traversal in which some matching provider gives a non-empty response
\* returns a provider's response, however many of the others raised or
\* answered empty; an error or an empty answer only takes the loop to the
\* next provider.
C7_FallbackSucceeds ==
  /\ TraversalFailed =>
       /\ Len(received) = Len(providers)
       /\ \A i \in 1..Len(received) : ~Usable(received[i])
  /\ TraversalReturned =>
       /\ llm_output \notin {<<>>, NoText}
       /\ \E i \in 1..Len(received) : received[i] = Answer(FALSE, llm_output)
  /\ (pc = "generate" /\ at = "loop") =>
       /\ Len(received) = next_provider - 1
       /\ next_provider <= Len(providers)

\* The first provider raised and the second one's response was returned.
C7_Witness ==
  /\ TraversalReturned
  /\ Len(received) = 2
  /\ received[1].raised
  /\ received[2] = Answer(FALSE, llm_output)

\* C8: a traversal in which every matching provider raises or answers empty
\* fails with the all-providers-failed error, and only when each matching
\* provider has been attempted.
C8_AllProvidersFailed ==
  /\ TraversalFailed =>
       /\ attempt_error = AllProvidersFailed
       /\ Range(attempted) = {i \in 1..Len(registry) : registry[i].model_name = model_id}
       /\ \A i \in 1..Len(received) : received[i].raised \/ received[i].response = <<>>
  /\ ( /\ providers # <<>>
       /\ Len(received) = Len(providers)
       /\ \A i \in 1..Len(received) : received[i].raised \/ received[i].response = <<>> )
     => TraversalFailed

\* Two matching providers, one raised and one answered empty: the traversal failed.
C8_Witness ==
  /\ TraversalFailed
  /\ received = <<Answer(TRUE, <<>>), Answer(FALSE, <<>>)>>

\* C9: generate for a model_id no registry entry serves fails with the
\* no-provider ValueError and calls no provider.
C9_NoProviderFound ==
  ( /\ \A i \in 1..Len(registry) : registry[i].model_name # model_id
    /\ CurrentStage = "generate"
    /\ component_error # NoError )
  => /\ component_error.kind = "ValueError"
     /\ traversals = 0
     /\ \A i \in DOMAIN provider_calls : provider_calls[i] = 0

\* C10: a traversal attempts only registry entries that serve model_id, each
\* at most once, in an order that is a permutation of those entries.
C10_Permutation ==
  /\ Len(attempted) <= Len(providers)
  /\ \A i \in 1..Len(attempted) :
       /\ attempted[i] = providers[i]
       /\ registry[attempted[i]].model_name = model_id
  /\ \A i, j \in 1..Len(providers) : i # j => providers[i] # providers[j]
  /\ providers # <<>> =>
       Range(providers) = {i \in 1..Len(registry) : registry[i].model_name = model_id}

\* Both matching providers were attempted, the later registry entry first.
C10_Witness ==
  /\ Len(attempted) = 2
  /\ attempted[1] > attempted[2]

\* Whether a configured provider has its credential and a recognized name.
Eligible(provider_config) ==
  /\ provider_config.provider \in env_keys
  /\ provider_config.provider \in SupportedProviders

\* C11 as stated: once construction has succeeded, the registry is the list of
\* the configured providers that have their credential and a recognized name,
\* in configuration order; and construction fails only when there is none.
C11_RegistryOfEligible ==
  /\ pc = "idle" => registry = SelectSeq(llm_config, Eligible)
  /\ pc = "init_failed" => SelectSeq(llm_config, Eligible) = <<>>

\* Whether a configured provider is registered: it is eligible and its client
\* was constructed.
Registered(provider_config) ==
  /\ Eligible(provider_config)
  /\ provider_config.provider \notin client_errors

\* C11, amended: once construction is over, the registry is the list of the
\* configured providers that have their credential, a recognized name and a
\* client whose constructor did not raise, in configuration order; construction
\* succeeds exactly when that list is not empty.
C11_RegistryBuilt ==
  pc \in {"idle", "init_failed"} =>
    /\ registry = SelectSeq(llm_config, Registered)
    /\ pc = "idle" <=> registry # <<>>

\* A pipeline built from two configured providers of which the second was
\* skipped.
C11_Witness ==
  /\ pc = "idle"
  /\ Len(llm_config) = 2
  /\ Len(registry) = 1
  /\ registry[1] = llm_config[1]

\* C12: a request is only ever served by a pipeline whose registry is not
\* empty: construction fails exactly when the registry is empty, and a process
\* whose construction failed never takes a query.
C12_NeverServesWithoutProvider ==
  /\ pc = "init_failed" <=> registry = <<>>
  /\ pc = "init_failed" => query = None /\ started = <<>> /\ result = NoResult

\* Startup filtering left no provider and the constructors raised.
C12_Witness == pc = "init_failed" /\ registry = <<>> /\ model_id = None

\* C13: no step of a run, the shuffle of generate included, changes the
\* registry or the model the pipeline asks for, which are all that the
\* candidates of a generate call are selected from.
C13_RegistryFrozen == [][registry' = registry /\ model_id' = model_id]_vars

\* A second traversal of this run has shuffled both registry entries into the
\* reverse of the registry's order.
C13_Witness ==
  /\ traversals = 2
  /\ at = "loop"
  /\ Len(registry) = 2
  /\ providers = <<2, 1>>

\* The latest attempt of rerank called on its own returned a list.
RerankReturned == rerank_calls > 0 /\ rerank_outcome.raised = NoError

\* Position in the caller's list of the passage with this id.
InputPosition(id) ==
  CHOOSE i \in 1..Len(rerank_documents) : rerank_documents[i].id = id

\* Whether passage d ranks before passage e: by higher rerank score, and for
\* equal scores by earlier position in the input.
RanksBefore(d, e) ==
  \/ d.rerank_score > e.rerank_score
  \/ /\ d.rerank_score = e.rerank_score
     /\ InputPosition(d.id) < InputPosition(e.id)

\* C14: rerank returns min(top_n, number of passages) of the input passages;
\* each ranks before the next one returned, and every returned passage ranks
\* before every input passage that was cut.
C14_TopNStable ==
  RerankReturned /\ rerank_documents # <<>> =>
    LET out == rerank_outcome.docs
        kept == {out[i].id : i \in 1..Len(out)}
    IN /\ Len(out) <= TopN
       /\ Len(out) = IF Len(rerank_documents) < TopN
                     THEN Len(rerank_documents) ELSE TopN
       /\ \A i \in 1..Len(out) : out[i] \in Range(rerank_documents)
       /\ \A i, j \in 1..Len(out) : i < j => RanksBefore(out[i], out[j])
       /\ \A i \in 1..Len(out), k \in 1..Len(rerank_documents) :
            rerank_documents[k].id \notin kept =>
              RanksBefore(out[i], rerank_documents[k])

\* Three passages of which the second and the third got the same score, higher
\* than the first: the second and the third are returned, in that order; and
\* the cut has dropped a passage.
C14_Witness ==
  /\ RerankReturned
  /\ Len(rerank_documents) = 3
  /\ rerank_scores = <<0, 1, 1>>
  /\ Len(rerank_outcome.docs) = 2

\* C15: an attempt of rerank with a non-empty query and no passages returns
\* the empty list and does not invoke the model.
C15_EmptyListNoModel ==
  rerank_calls > 0 /\ ~Empty(rerank_query) /\ rerank_documents = <<>> =>
    /\ rerank_outcome = Outcome(NoError, <<>>)
    /\ predict_calls = 0

\* rerank was called with a real question and no passages.
C15_Witness ==
  /\ rerank_calls > 0
  /\ rerank_query = "q"
  /\ rerank_documents = <<>>
  /\ rerank_outcome.docs = <<>>

\* C16: every passage rerank returns carries the rerank_score the model
\* predicted for it in this attempt.
C16_ScoreOfThisCall ==
  RerankReturned =>
    \A i \in 1..Len(rerank_outcome.docs) :
      LET doc == rerank_outcome.docs[i] IN
      /\ "rerank_score" \in DOMAIN doc
      /\ doc.rerank_score = rerank_scores[InputPosition(doc.id)]

\* A second attempt on two passages, which the first attempt had scored in
\* place, has scored them again and returned both.
C16_Witness ==
  /\ RerankReturned
  /\ rerank_calls = 2
  /\ predict_calls = 1
  /\ rerank_scores = <<1, 0>>
  /\ rerank_outcome.docs = <<[id |-> 1, rerank_score |-> 1],
                             [id |-> 2, rerank_score |-> 0]>>

\* The formatter called on its own returned a response.
FormatReturned == format_outcome # NoResult /\ format_outcome.raised = NoError

\* C17: the citations of a formatted response are at most max_citations and
\* no two of them are the same string.
C17_CitationsBoundedDistinct ==
  FormatReturned =>
    LET citations == format_outcome.response.citations
    IN /\ Len(citations) <= MaxCitations
       /\ \A i, j \in 1..Len(citations) : i < j => citations[i] # citations[j]

\* Whether the passage with this metadata has a title and an identifier, and
\* whether the output names it.
Complete(metadata) ==
  metadata.case_title # <<>> /\ metadata.media_neutral_citation # <<>>
Referenced(metadata) ==
  \/ Occurs(metadata.case_title, format_llm_output)
  \/ Occurs(Citation(metadata), format_llm_output)

\* C18 as stated, for passages that all have a title and an identifier: when
\* the output names a passage, the citations listed are those of exactly the
\* passages it names; when it names none, they are those of all passages.
C18_ExactlyReferenced ==
  FormatReturned /\ (\A i \in 1..Len(format_documents) : Complete(format_documents[i])) =>
    LET positions == 1..Len(format_documents)
        referenced == {i \in positions : Referenced(format_documents[i])}
    IN Range(format_outcome.citations) =
         {Citation(format_documents[i]) :
            i \in IF referenced # {} THEN referenced ELSE positions}

\* The positions of S that are the first of S with their identifier.
FirstPerIdentifier(S) ==
  {i \in S : \A j \in S :
     j < i => format_documents[j].media_neutral_citation
                # format_documents[i].media_neutral_citation}

\* The citations of the passages at the positions S, in passage order.
CitationsOf(S) ==
  [k \in 1..Cardinality(S) |->
     Citation(format_documents[CHOOSE i \in S : Cardinality({j \in S : j < i}) = k - 1])]

\* C18, amended: among the passages that have a title and an identifier, the
\* list before truncation holds, in passage order, the citation of the first
\* passage per identifier that the output names; only if the output names none
\* of them does it hold the citation of the first passage per identifier.
C18_TwoPasses ==
  FormatReturned =>
    LET complete == {i \in 1..Len(format_documents) : Complete(format_documents[i])}
        referenced == {i \in complete : Referenced(format_documents[i])}
    IN format_outcome.citations =
         IF referenced # {} THEN CitationsOf(FirstPerIdentifier(referenced))
         ELSE CitationsOf(FirstPerIdentifier(complete))

\* The output names the second of two passages and not the first: only the
\* second is cited.
C18_Witness ==
  /\ FormatReturned
  /\ format_llm_output = <<"B", SP, "A">>
  /\ format_documents =
       <<[case_title |-> <<"A", SP, "B">>, media_neutral_citation |-> <<"C">>],
         [case_title |-> <<"A">>, media_neutral_citation |-> <<"D">>]>>
  /\ format_outcome.citations = <<<<"A", SP, "D">>>>

\* Whether the piece at position i of t stands on a line of its own.
OwnLine(t, i) ==
  /\ \A k \in 1..(i - 1) : (\A m \in k..(i - 1) : t[m] # NL) => t[k] = SP
  /\ \A k \in (i + 1)..Len(t) : (\A m \in (i + 1)..k : t[m] # NL) => t[k] = SP

\* C20: for an output with exactly one Final Answer: header, on a line of its
\* own and followed by an answer, the parsed reasoning is the text before the
\* header without a leading Reasoning: label, and the final answer is the text
\* after the header (both stripped, and without emphasis markers).
C20_PrimaryParse ==
  LET t == format_llm_output
      headers == {i \in 1..Len(t) : t[i] = FinalAnswerHeader}
      at_header == CHOOSE i \in headers : TRUE
      before == Strip(SubSeq(t, 1, at_header - 1))
      after == Strip(SubSeq(t, at_header + 1, Len(t)))
  IN FormatReturned /\ CRLF \notin Range(t) /\ Cardinality(headers) = 1
       /\ OwnLine(t, at_header) /\ Clean(after) # <<>> =>
       /\ format_outcome.reasoning =
            Clean(IF before # <<>> /\ Head(before) = ReasoningLabel
                  THEN Strip(Tail(before)) ELSE before)
       /\ format_outcome.response.final_answer = Clean(after)

\* The ids of the passages of a list.
Ids(docs) == {docs[i].id : i \in 1..Len(docs)}

\* C19: every citation of a result is the citation of one of the result's
\* documents, the reranked passages; the citation of a passage that was
\* retrieved and cut is not among them.
C19_CitationsOfReranked ==
  pc = "done" =>
    /\ \A k \in 1..Len(result.citations) :
         \E i \in 1..Len(result.documents) :
           result.citations[k] = Citation(IndexMetadata(result.documents[i].id))
    /\ \A j \in 1..Len(documents) :
         documents[j].id \notin Ids(result.documents) =>
           Citation(IndexMetadata(documents[j].id)) \notin Range(result.citations)

\* Three passages were retrieved and the second, the only one whose title the
\* output names, was cut: the result cites the two passages that were kept.
C19_Witness ==
  /\ pc = "done"
  /\ Len(documents) = 3
  /\ Ids(result.documents) = {1, 3}
  /\ Occurs(IndexMetadata(2).case_title, llm_output)
  /\ Range(result.citations) =
       {Citation(IndexMetadata(1)), Citation(IndexMetadata(3))}

\* The pieces of the line of t that follow position i.
RestOfLine(t, i) ==
  LET breaks == {k \in (i + 1)..Len(t) : t[k] = NL}
  IN SubSeq(t, i + 1, IF breaks = {} THEN Len(t) ELSE Least(breaks) - 1)

\* C21: for an output with no Final Answer: header and one Conclusion: header
\* (and no other answer word), followed on its line by a blank and an answer,
\* the final answer is that answer, wherever the line stands in the output.
C21_ConclusionFallback ==
  LET t == format_llm_output
      headers == {i \in 1..Len(t) : t[i] \in AnswerWords}
      at_header == CHOOSE i \in headers : TRUE
      answer == RestOfLine(t, at_header)
  IN FormatReturned /\ Cardinality(headers) = 1 /\ t[at_header] = "Conclusion:"
       /\ answer # <<>> /\ Head(answer) = SP /\ Clean(answer) # <<>> =>
       format_outcome.response.final_answer = Clean(answer)

\* Whether an output holds an answer header (or such a word), and whether it
\* holds an answer segment: such a header with an answer after it.
AnswerHeader(llm_text) == \E i \in 1..Len(llm_text) : llm_text[i] \in AnswerWords
AnswerSegment(llm_text) ==
  \E i \in 1..Len(llm_text) :
    /\ llm_text[i] \in AnswerWords
    /\ Clean(Normalized(SubSeq(llm_text, i + 1, Len(llm_text)))) # <<>>

\* C22: the formatter returns the sentinel as the final answer of an output
\* that holds no answer header, and of no output that holds an answer segment.
C22_SentinelIffNoSegment ==
  FormatReturned =>
    /\ ~AnswerHeader(format_llm_output) =>
         format_outcome.response.final_answer = Sentinel
    /\ format_outcome.response.final_answer = Sentinel =>
         ~AnswerSegment(format_llm_output)

\* The retrieval service called on its own got an answer from the index.
IndexAnswered == query_response # NoResult

\* The records of the index's answer that carry metadata, in the order of the
\* answer.
WithMetadata ==
  LET kept == query_response.with_metadata \cap 1..query_response.n
  IN [k \in 1..Cardinality(kept) |->
        CHOOSE i \in kept : Cardinality({j \in kept : j < i}) = k - 1]

\* C23: when the index answers, retrieve returns, without an error, a passage
\* for each match that carries metadata and for no other, in the order of the
\* index and at most top_k of them; the empty list when no match carries any.
C23_MatchesWithMetadata ==
  IndexAnswered =>
    /\ retrieve_outcome.raised = NoError
    /\ Len(retrieve_outcome.docs) = Len(WithMetadata)
    /\ Len(retrieve_outcome.docs) <= TopK
    /\ \A k \in 1..Len(WithMetadata) :
         retrieve_outcome.docs[k] = Document(WithMetadata[k])

\* Of five matches the second and the fourth carry no metadata: the first, the
\* third and the fifth are returned.
C23_Witness ==
  /\ IndexAnswered
  /\ query_response.n = 5
  /\ retrieve_outcome = Outcome(NoError, <<Document(1), Document(3), Document(5)>>)

\* The metadata of the passages of a list.
MetadataOf(docs) == [i \in 1..Len(docs) |-> IndexMetadata(docs[i].id)]

Handled == exchanges'[Len(exchanges')]

\* The step of a request whose pipeline.run raised.
C25_Step ==
  (exchanges' # exchanges /\ Handled.run.raised # NoError) =>
    /\ Handled.response = QueryResponse(<<>>, <<>>, Handled.run.raised.msg)
    /\ Handled.response.error # NoText
    /\ chat_history' = chat_history

\* C25: a request whose pipeline.run raises is answered with a 200 response
\* that carries the error message, an empty final answer and no citations;
\* its handler adds no row to the chat history; and whatever the requests
\* before it met, the API handles the next request.
C25_RunFailureAnswered ==
  [](Len(exchanges) < MaxRequests => ENABLED NextService) /\ [][C25_Step]_vars

\* A request whose run failed was answered with the error, and the request
\* after it was answered and stored.
C25_Witness ==
  /\ Len(exchanges) = 2
  /\ exchanges[1].run.raised \in RunFailures
  /\ exchanges[1].response.error = exchanges[1].run.raised.msg
  /\ exchanges[2].run.result # NoResult
  /\ exchanges[2].response =
       QueryResponse(exchanges[2].run.result.final_answer,
                     exchanges[2].run.result.citations, NoText)
  /\ chat_history = <<ChatRow(exchanges[2].user_id, exchanges[2].query,
                              exchanges[2].run.result)>>

\* The passages the index gives for a query, scored for that query.
OwnPassages(q) ==
  <<[id |-> RecordOf(VectorOf(q)), rerank_score |-> ScoreOf(q)]>>

\* The results a call of run for q gives when it runs alone: those built from
\* the query, its vector, its passages and a response to its prompt.
AloneResults(q) ==
  {ResultOf(q, [NewFrame EXCEPT !.embedding = VectorOf(q),
                                !.reranked_docs = OwnPassages(q),
                                !.llm_output = ResponseFor(kind, q, OwnPassages(q))]) :
     kind \in ResponseKinds \ {"empty"}}

\* The failures of a call of run alone: a stage whose attempts all failed on
\* its service, or the format stage given no passages.
AloneFailures ==
  UNION {{Wrap("Pipeline failed", RetryError(Wrap(StagePrefix(stage), RetryError(e)))) :
            e \in {Wrap(StagePrefix(stage), ExternalError), AllProvidersFailed,
                   ValueError("Documents must be a non-empty list of Document objects.")}} :
         stage \in StageSet}

\* What a call holds is its own: the outcome of call t is one of those of a
\* run alone for its query, and nothing in its result stems from a request
\* made for the other query.
C26_Own ==
  \A t \in Tasks :
    LET q == TaskQueries[t] IN
    /\ tasks[t].query = q
    /\ tasks[t].pc \in StageSet \cup {"done", "failed"}
    /\ tasks[t].pc = "done" <=> tasks[t].result # NoResult
    /\ tasks[t].pc = "failed" <=> tasks[t].error # NoError
    /\ tasks[t].pc = "failed" =>
         tasks[t].error \in AloneFailures /\ tasks[t].stage_attempt = MaxAttempts
    /\ tasks[t].pc = "done" =>
         /\ tasks[t].result \in AloneResults(q)
         /\ tasks[t].result.documents = OwnPassages(q)
         /\ tasks[t].result.final_answer \in {<<q>>, Sentinel}
         /\ tasks[t].result.citations \in
              {<<Citation(IndexMetadata(RecordOf(VectorOf(q))))>>}

\* A step is a step of one call, and leaves the other call as it was.
C26_Step ==
  \E t \in Tasks : \A u \in Tasks \ {t} : tasks'[u] = tasks[u] /\ frames'[u] = frames[u]

\* C26: when two calls of run interleave at every await, each call's result
\* or failure is one it gives when run alone; a step of one call, a failing
\* or a retrying one included, changes nothing of the other, and no passage,
\* score, response or citation of one query is in the result of the other.
C26_QueriesIsolated == []C26_Own /\ [][C26_Step]_vars

\* The second call failed in reranking, after its retries, and the first one
\* returned its own answer and citation.
C26_Witness ==
  /\ tasks[2].pc = "failed"
  /\ frames[2].embedding = VectorOf("q2")
  /\ frames[2].documents = <<Document(2)>>
  /\ frames[2].reranked_docs = NoDocs
  /\ tasks[1].pc = "done"
  /\ tasks[1].result.final_answer = <<"q1">>

\* The step is a call of run.
NewRun == pc' = "embed" /\ started' = <<>>

\* The steps of a run: the run stays in its stage, goes on to the next one or
\* fails; a step that does not complete the stage changes no stage's output; a
\* stage changes no output but its own (rerank also writes the scores into
\* the passages retrieved); and a stage that returns without a failed attempt
\* returns from the first call of its component.
C27_Step ==
  ~NewRun =>
    /\ pc \in StageSet
    /\ pc' \in {pc, NextOf(pc), "failed"}
    /\ pc' \in {pc, "failed"} => UNCHANGED locals
    /\ pc # "embed" => embedding' = embedding
    /\ pc \notin {"retrieve", "rerank"} => documents' = documents
    /\ (pc = "rerank" /\ documents' # documents) =>
         /\ Len(documents') = Len(documents)
         /\ \A i \in 1..Len(documents) : documents'[i].id = documents[i].id
    /\ pc # "rerank" => reranked_docs' = reranked_docs
    /\ pc # "generate" => llm_output' = llm_output
    /\ (pc' = NextOf(pc) /\ attempt_error = NoError) =>
         /\ stage_attempt = 1
         /\ comp_attempt = IF pc = "generate" THEN 1 ELSE 0
         /\ pc = "generate" => traversals = 1

\* C27: a retry runs the failing stage again and no other: a run never goes
\* back to a stage that has returned, what the stages before have produced is
\* still there, unchanged, for the retried stage, and in a stage without a
\* failed call the component is invoked once.
C27_RetryOnlyFailingStage == [][C27_Step]_vars

\* The second attempt of the generate stage is about to call the router, with
\* the vector and the reranked passages of the stages before.
C27_Witness ==
  /\ pc = "generate"
  /\ at = "call"
  /\ stage_attempt = 2
  /\ comp_attempt = 0
  /\ embedding = QueryVector
  /\ reranked_docs \notin {NoDocs, <<>>}

\* The attempts and calls of a run are within the retry budgets: three
\* attempts per stage, three attempts of the component in each, one traversal
\* per attempt of generate, and in a traversal one call per matching provider.
C28_Bounded ==
  /\ stage_attempt <= MaxAttempts
  /\ comp_attempt <= MaxAttempts
  /\ traversals <= MaxAttempts * MaxAttempts
  /\ Len(attempted) <= Cardinality(Matching(model_id))
  /\ \A i \in DOMAIN provider_calls :
       /\ provider_calls[i] <= traversals
       /\ i \notin Matching(model_id) => provider_calls[i] = 0
  /\ invalid_evals + external_calls
       <= MaxAttempts * MaxAttempts * (1 + Cardinality(Matching(model_id)))

\* C28: when every external call returns or raises, every run ends, by
\* returning a result or by raising; and its attempts and provider calls stay
\* within the retry budgets and the number of matching providers.
C28_Terminates ==
  /\ []C28_Bounded
  /\ (pc \in StageSet) ~> (pc \in {"done", "failed"})

\* A run has used the whole budget of generate: nine traversals, each calling
\* both matching providers.
C28_Witness ==
  /\ pc = "failed"
  /\ failed_stage = "generate"
  /\ traversals = MaxAttempts * MaxAttempts
  /\ \E i, j \in DOMAIN provider_calls :
       i # j /\ provider_calls[i] = traversals /\ provider_calls[j] = traversals

\* What generate returns is one or more pieces of text.
NonEmptyText(t) == t # NoText /\ t # <<>> /\ Len(t) > 0

\* The step is a return of generate to its stage wrapper.
GenerateReturns == pc = "generate" /\ pc' = "format"

\* C29: whenever generate returns, what it returns is a non-empty text: the
\* stage and the formatter never hold an empty or missing response, and the
\* fallback kept while the loop runs is never empty either.
C29_Step ==
  GenerateReturns =>
    /\ NonEmptyText(llm_output')
    /\ at = "loop"
    /\ \E i \in 1..Len(received') : Usable(received'[i])
C29_ResponseNonEmpty ==
  /\ [](llm_output # NoText => NonEmptyText(llm_output))
  /\ [](best_response # NoText => NonEmptyText(best_response))
  /\ [][C29_Step]_vars

\* generate returned the second provider's response after the first answered
\* with an empty one.
C29_Witness ==
  /\ pc = "format"
  /\ Len(received) = 2
  /\ received[1] = Answer(FALSE, <<>>)
  /\ NonEmptyText(llm_output)
  /\ received[2] = Answer(FALSE, llm_output)

\* C30: a run that raises raises ValueError when its query is empty, and
\* RuntimeError when a step failed.
C30_RaisesByCause ==
  pc = "failed" =>
    /\ Empty(query) => error.kind = "ValueError"
    /\ ~Empty(query) => error.kind = "RuntimeError"

\* The stage whose component call failed last.
FailingStage == IF pc = "failed" THEN failed_stage ELSE pc

\* C31: when the external call of embed, retrieve or rerank raised on every
\* attempt, the component call fails with the component's own error, the
\* RuntimeError that wraps the external failure.
C31_ComponentOwnError ==
  ( /\ component_error # NoError
    /\ FailingStage \in {"embed", "retrieve", "rerank"}
    /\ attempt_error = Wrap(StagePrefix(FailingStage), ExternalError) )
  => /\ component_error.kind = "RuntimeError"
     /\ component_error.msg[1] = StagePrefix(FailingStage)

\* C32: a pipeline whose construction succeeded has a registry entry for
\* the model it requests on every generation.
C32_ModelRegistered ==
  pc # "init_failed" => \E i \in 1..Len(registry) : registry[i].model_name = model_id

C33_Step ==
  /\ (pc = "rerank" /\ at = "call" /\ documents = <<>>) =>
       /\ pc' = "generate"
       /\ reranked_docs' = <<>>
       /\ comp_attempt = 0 /\ external_calls = 0
  /\ (pc = "generate" /\ at = "call" /\ reranked_docs = <<>>
        /\ Matching(model_id) # {}) =>
       /\ at' = "loop"
       /\ traversals' = traversals + 1

WithHeader ==
  {i \in 1..Len(received) : Usable(received[i]) /\ HasHeader(received[i].response)}
WithoutHeader ==
  {i \in 1..Len(received) : Usable(received[i]) /\ ~HasHeader(received[i].response)}
First(S) == CHOOSE i \in S : \A j \in S : i <= j

\* C34: a traversal returns the response of the first attempted provider
\* that answers with the Final Answer: header, and attempts none after it; a
\* response without the header does not end the traversal, and when no
\* provider answers with the header the first non-empty response received is
\* returned, after every provider was attempted.
C34_FirstHeaderElseFirstResponse ==
  /\ (pc = "generate" /\ at = "loop") =>
       /\ WithHeader = {}
       /\ best_response =
            IF WithoutHeader = {} THEN NoText
            ELSE received[First(WithoutHeader)].response
  /\ TraversalReturned =>
       IF WithHeader # {}
       THEN /\ WithHeader = {Len(received)}
            /\ llm_output = received[Len(received)].response
       ELSE /\ Len(received) = Len(providers)
            /\ WithoutHeader # {}
            /\ llm_output = received[First(WithoutHeader)].response

\* Two providers answered without the header, with different texts: the
\* first one's text was returned.
C34_Witness ==
  /\ pc = "format"
  /\ received = <<Answer(FALSE, <<"x">>), Answer(FALSE, <<"y">>)>>
  /\ llm_output = <<"x">>

\* C35: a request whose user lookup finds no row is answered with 404 "User
\* not found", one whose lookup raises with 500; neither runs the pipeline.
C35_UnknownUser404 ==
  \A i \in 1..Len(exchanges) :
    /\ exchanges[i].lookup = "missing" =>
         /\ exchanges[i].response = HTTPException(404, "User not found")
         /\ exchanges[i].run = NotCalled
    /\ exchanges[i].lookup = "error" =>
         /\ exchanges[i].response.status_code = 500
         /\ exchanges[i].run = NotCalled

\* The rows the step appends to the chat history.
Appended == SubSeq(chat_history', Len(chat_history) + 1, Len(chat_history'))

\* The step of a request: it appends one row or none; a row only for a
\* verified user whose run returned, holding that run's answer, which is also
\* what the client receives; and when the run returned and no row was
\* appended, the client receives the error payload.
C36_Step ==
  exchanges' # exchanges =>
    /\ Len(chat_history') >= Len(chat_history)
    /\ SubSeq(chat_history', 1, Len(chat_history)) = chat_history
    /\ Len(Appended) <= 1
    /\ Appended # <<>> =>
         /\ Handled.lookup = "found"
         /\ Handled.run.raised = NoError
         /\ Handled.run.result # NoResult
         /\ Appended[1].user_id = Handled.user_id
         /\ Appended[1].query = Handled.query
         /\ Appended[1].response = Handled.run.result.final_answer
         /\ Appended[1].citations = Handled.run.result.citations
         /\ Handled.response =
              QueryResponse(Appended[1].response, Appended[1].citations, NoText)
    /\ (Appended = <<>> /\ Handled.run.result # NoResult) =>
         /\ Handled.response.status_code = 200
         /\ Handled.response.final_answer = <<>>
         /\ Handled.response.citations = <<>>
         /\ Handled.response.error # NoText

\* C36: a request appends at most one chat-history row, only after its user
\* was verified and run returned, holding that run's final_answer and
\* citations; when the append fails the client receives the error payload
\* with an empty answer and no citations.
C36_HistoryAppendedOnce ==
  /\ [](Len(chat_history) <= Len(exchanges))
  /\ [][C36_Step]_vars

\* The first request's run returned an answer and its append failed; the
\* second one's row was appended.
C36_Witness ==
  /\ Len(exchanges) = 2
  /\ exchanges[1].run.result # NoResult
  /\ exchanges[1].response.status_code = 200
  /\ exchanges[1].response.final_answer = <<>>
  /\ exchanges[2].run.result # NoResult
  /\ chat_history = <<[user_id |-> exchanges[2].user_id, query |-> exchanges[2].query,
                       response |-> <<"x">>,
                       citations |-> exchanges[2].run.result.citations,
                       tags |-> <<>>]>>

\* What a passage holds apart from its rerank score.
Apart(doc) == [f \in DOMAIN doc \ {"rerank_score"} |-> doc[f]]

\* An attempt of rerank leaves the caller's list with the same passages in the
\* same order, each unchanged apart from its rerank score; when the model
\* answered, every passage of the list, cut or not, holds the score predicted
\* for it; and an attempt on passages already scored, with the same scores,
\* returns what the earlier one returned.
C37_Step ==
  rerank_calls' # rerank_calls =>
    /\ Len(rerank_documents') = Len(rerank_documents)
    /\ \A i \in 1..Len(rerank_documents) :
         Apart(rerank_documents'[i]) = Apart(rerank_documents[i])
    /\ (predict_calls' = 1 /\ rerank_outcome'.raised = NoError) =>
         \A i \in 1..Len(rerank_documents) :
           /\ DOMAIN rerank_documents'[i] = DOMAIN Apart(rerank_documents[i]) \cup {"rerank_score"}
           /\ rerank_documents'[i].rerank_score = rerank_scores'[i]
    /\ ( /\ RerankReturned /\ predict_calls = 1
         /\ predict_calls' = 1 /\ rerank_outcome'.raised = NoError
         /\ rerank_scores' = rerank_scores ) =>
         /\ rerank_outcome' = rerank_outcome
         /\ rerank_documents' = rerank_documents

\* C37: rerank changes nothing of its input passages except the rerank
\* score, which it attaches to every input passage, those cut by top_n
\* included; and a second rerank of the same passages with the same scores
\* gives the same output.
C37_OnlyRerankScore == [][C37_Step]_vars

\* A second attempt on three passages: all three hold their score, and the
\* one with the lowest was cut.
C37_Witness ==
  /\ RerankReturned
  /\ rerank_calls = 2
  /\ rerank_scores = <<1, 1, 0>>
  /\ rerank_documents = <<[id |-> 1, rerank_score |-> 1],
                          [id |-> 2, rerank_score |-> 1],
                          [id |-> 3, rerank_score |-> 0]>>
  /\ Len(rerank_outcome.docs) = TopN

\* The passages that qualify in the pass that built the list: those with a
\* title and an identifier that the output names, or when it names none, all
\* those with a title and an identifier.
Qualifying ==
  LET complete == {i \in 1..Len(format_documents) : Complete(format_documents[i])}
      referenced == {i \in complete : Referenced(format_documents[i])}
  IN IF referenced # {} THEN referenced ELSE complete

\* The first qualifying passage with the identifier m.
FirstWith(m) ==
  CHOOSE i \in Qualifying :
    /\ format_documents[i].media_neutral_citation = m
    /\ \A j \in Qualifying :
         format_documents[j].media_neutral_citation = m => i <= j

\* C38: the citation list holds one citation per citation identifier of the
\* qualifying passages, that of the first such passage in passage order; a
\* passage without a title or without an identifier adds none, so that the
\* list is empty when no passage has both.
C38_OnePerIdentifier ==
  FormatReturned =>
    LET out == format_outcome.citations
        identifiers == {format_documents[i].media_neutral_citation : i \in Qualifying}
    IN /\ Len(out) = Cardinality(identifiers)
       /\ \A m \in identifiers :
            \E k \in 1..Len(out) : out[k] = Citation(format_documents[FirstWith(m)])
       /\ \A k \in 1..Len(out) :
            \E m \in identifiers : out[k] = Citation(format_documents[FirstWith(m)])
       /\ (\A i \in 1..Len(format_documents) : ~Complete(format_documents[i])) =>
            out = <<>> /\ format_outcome.response.citations = <<>>

\* A passage without a title, then two passages with the same identifier:
\* the output names none, and the list holds the citation of the second
\* passage only.
C38_Witness ==
  /\ FormatReturned
  /\ format_llm_output = <<"x">>
  /\ format_documents =
       <<[case_title |-> <<>>, media_neutral_citation |-> <<"D">>],
         [case_title |-> <<"A">>, media_neutral_citation |-> <<"C">>],
         [case_title |-> <<"A", SP, "B">>, media_neutral_citation |-> <<"C">>]>>
  /\ format_outcome.citations = <<<<"A", SP, "C">>>>

====
